---- MODULE Spec2Model ----
(***************************************************************************)
(* A model of tobolabs/coco: the router tree (route.go), the lazy          *)
(* dispatcher walk behind sync.Once (App.ServeHTTP, configureRoutes,       *)
(* traverseAndConfigure) and the per-request handler chain (context.next,  *)
(* execParamChain).                                                        *)
(*                                                                         *)
(* Go values are modelled as the build produces them:                      *)
(*  - a string is a sequence of one-character strings;                     *)
(*  - a []Handler is a slice header [arr, off, len] into an array of the   *)
(*    heap; append writes in place while the capacity lasts and moves to a *)
(*    new array after that (the gc runtime's growslice);                   *)
(*  - a Handler is a record naming the function value.                     *)
(***************************************************************************)
EXTENDS Integers, Sequences, FiniteSets, TLC

VARIABLES
    routes,       \* the route structs, by creation; routes[1] is the root
    heap,         \* backing arrays of the []Handler slices
    table,        \* what httprouter holds: the entries Handle accepted
    httpHandler,  \* App.httpHandler: "placeholder" or "router"
    once,         \* App.once: [done, m]; m is the goroutine holding the mutex
    walk,         \* the call stack of traverseAndConfigure
    reqs,         \* the ServeHTTP calls, one goroutine each
    hist,         \* history: what has happened so far
    lim,          \* the scenario: how many calls of each kind are made
    call          \* a call of a Request or Response helper: input, result

vars ==
    <<routes, heap, table, httpHandler, once, walk, reqs, hist, lim, call>>

-----------------------------------------------------------------------------
(* Bounds of the scenarios.                                                *)

MaxRouters == 2      \* NewRouter calls
MaxUse == 3          \* Use calls on one node (middleware scenario)
MaxUseServe == 1     \* Use calls on one node (dispatch scenarios)
MaxEntries == 2      \* Get/Post/... calls in all
MaxParams == 2       \* Param calls in all
MaxReqs == 2         \* ServeHTTP calls
MaxNextCalls == 2    \* next calls one handler invocation makes
MaxLate == 1         \* Use calls made after the walk
MaxOps == 3          \* Response calls the handlers of one request make

-----------------------------------------------------------------------------
(* Strings.                                                                *)

Slash == "/"

RECURSIVE SplitSlash(_)
\* strings.Split(s, "/"): the segments between the slashes
SplitSlash(s) ==
    IF \A i \in 1..Len(s) : s[i] # Slash THEN <<s>>
    ELSE LET i == CHOOSE k \in 1..Len(s) :
                      s[k] = Slash /\ \A j \in 1..(k-1) : s[j] # Slash
         IN  <<SubSeq(s, 1, i-1)>> \o SplitSlash(SubSeq(s, i+1, Len(s)))

RECURSIVE JoinSlash(_)
JoinSlash(segs) ==
    IF Len(segs) = 0 THEN <<>>
    ELSE IF Len(segs) = 1 THEN segs[1]
    ELSE segs[1] \o <<Slash>> \o JoinSlash(Tail(segs))

RECURSIVE CleanSegs(_, _, _)
\* the element loop of path.Clean: "" and "." are dropped, ".." backs up
CleanSegs(segs, out, rooted) ==
    IF Len(segs) = 0 THEN out
    ELSE LET s == segs[1] rest == Tail(segs) IN
         IF s = <<>> \/ s = <<".">> THEN CleanSegs(rest, out, rooted)
         ELSE IF s = <<".", ".">> THEN
              IF Len(out) > 0 /\ out[Len(out)] # <<".", ".">>
                THEN CleanSegs(rest, SubSeq(out, 1, Len(out)-1), rooted)
              ELSE IF rooted THEN CleanSegs(rest, out, rooted)
              ELSE CleanSegs(rest, Append(out, s), rooted)
         ELSE CleanSegs(rest, Append(out, s), rooted)

\* path.Clean / filepath.Clean
Clean(p) ==
    IF p = <<>> THEN <<".">>
    ELSE LET rooted == p[1] = Slash
             body == JoinSlash(CleanSegs(SplitSlash(p), <<>>, rooted))
             out == (IF rooted THEN <<Slash>> ELSE <<>>) \o body
         IN  IF out = <<>> THEN <<".">> ELSE out

\* filepath.Join(a, b)
Join(a, b) ==
    IF a = <<>> /\ b = <<>> THEN <<>>
    ELSE IF a = <<>> THEN Clean(b)
    ELSE IF b = <<>> THEN Clean(a)
    ELSE Clean(a \o <<Slash>> \o b)

\* strings.TrimSuffix(s, "/")
TrimSuffixSlash(s) ==
    IF Len(s) > 0 /\ s[Len(s)] = Slash THEN SubSeq(s, 1, Len(s)-1) ELSE s

-----------------------------------------------------------------------------
(* Handlers and slices.                                                    *)

\* a Handler value: k names the kind ("mw": passed to Use, "h": passed to
\* Get/Post/..., "ph": passed to Param), n the node, i the call, j the place
\* among the call's arguments, v the value a param closure hands on
Hnd(k, n, i, j) == [k |-> k, n |-> n, i |-> i, j |-> j, v |-> <<>>]
NoH == Hnd("nil", 0, 0, 0)

NilArr == <<"nil", 0, 0>>
NilSlice == [arr |-> NilArr, off |-> 0, len |-> 0]
\* make([]Handler, 0): not nil, no capacity
EmptyArr == <<"make", 0, 0>>
EmptySlice == [arr |-> EmptyArr, off |-> 0, len |-> 0]

Cap(h, s) == Len(h[s.arr]) - s.off
Cells(h, s) == SubSeq(h[s.arr], s.off + 1, s.off + s.len)

\* runtime.roundupsize for 8-byte elements: the size classes 8, 16, 24, 32,
\* 48, 64, 80, 96, 112, 128 bytes
RoundCap(c) ==
    IF c <= 4 THEN c
    ELSE IF c % 2 = 0 THEN c ELSE c + 1

\* runtime.growslice: the capacity of the array append moves to
GrowCap(oldcap, newlen) ==
    IF newlen > 2 * oldcap THEN RoundCap(newlen) ELSE RoundCap(2 * oldcap)

Zeros(n) == [i \in 1..n |-> NoH]

\* append(s, elems...): [h |-> the heap after it, s |-> the slice returned];
\* id names the array it allocates when the capacity does not last
GoAppend(h, s, elems, id) ==
    LET n == Len(elems) IN
    IF n = 0 THEN [h |-> h, s |-> s]
    ELSE IF s.len + n <= Cap(h, s) THEN
         [h |-> [h EXCEPT ![s.arr] =
                    [i \in 1..Len(@) |->
                        IF i > s.off + s.len /\ i <= s.off + s.len + n
                        THEN elems[i - s.off - s.len] ELSE @[i]]],
          s |-> [s EXCEPT !.len = s.len + n]]
    ELSE LET c == GrowCap(Cap(h, s), s.len + n)
             cells == Cells(h, s) \o elems \o Zeros(c - s.len - n)
         IN  [h |-> (id :> cells) @@ h,
              s |-> [arr |-> id, off |-> 0, len |-> s.len + n]]

\* the arrays some slice of the program still points into
Live(rs, tb, rq) ==
    {NilArr, EmptyArr}
      \cup {rs[n].middleware.arr : n \in DOMAIN rs}
      \cup {rs[n].cachedMiddleware.arr : n \in DOMAIN rs}
      \cup {tb[e].handlers.arr : e \in DOMAIN tb}
      \cup {rq[r].handlers.arr : r \in DOMAIN rq}

\* garbage collection: arrays nothing points into are gone
Collect(h, rs, tb, rq) ==
    [a \in (DOMAIN h) \cap Live(rs, tb, rq) |-> h[a]]

-----------------------------------------------------------------------------
(* The router tree: route.go.                                              *)

NoNode == 0
NoMap == [x \in {} |-> 0]
Range(f) == {f[x] : x \in DOMAIN f}

\* App.basePath, set by NewApp
basePath == <<>>

\* App.makePath
makePath(p) ==
    LET q == IF p = <<>> THEN <<Slash>> ELSE p
        clean == Clean(q)
        c2 == IF clean[1] # Slash THEN <<Slash>> \o clean ELSE clean
    IN  basePath \o c2

\* App.newRoute: the route struct it builds
newRoute(rs, path, isRoot, parent) ==
    LET cleanPath == makePath(path) IN
    [base |-> IF isRoot THEN cleanPath ELSE Join(rs[parent].base, cleanPath),
     parent |-> IF isRoot THEN NoNode ELSE parent,
     middleware |-> NilSlice,
     paths |-> <<>>,
     paramHandlers |-> NoMap,
     cachedMiddleware |-> NilSlice,
     rootNode |-> isRoot,
     children |-> NoMap]

\* App.newRoute, not the root: the new node is entered in parent.children
\* under its combined path
newChild(rs, path, parent) ==
    LET r == newRoute(rs, path, FALSE, parent)
        id == Len(rs) + 1
    IN  Append([rs EXCEPT ![parent].children = (r.base :> id) @@ @], r)

\* route.getFullPath
getFullPath(r, path) ==
    TrimSuffixSlash(r.base)
      \o (IF Len(path) > 0 /\ path[1] # Slash THEN <<Slash>> ELSE <<>>)
      \o path

\* route.handle: the routePath appended to r.paths
handle(r, httpMethod, path, handlers) ==
    [r EXCEPT !.paths = Append(@, [name |-> getFullPath(r, path),
                                   handlers |-> handlers,
                                   method |-> httpMethod])]

RECURSIVE fetchLoop(_, _, _, _, _)
\* the loop of route.fetchMiddleware, from current up to the root:
\* middleware = append(current.middleware, middleware...)
fetchLoop(h, rs, current, acc, id) ==
    IF current = NoNode THEN [h |-> h, s |-> acc]
    ELSE LET a == GoAppend(h, rs[current].middleware, Cells(h, acc),
                           <<id[1], id[2], id[3] + 1>>)
         IN  fetchLoop(a.h, rs, rs[current].parent, a.s,
                       <<id[1], id[2], id[3] + 1>>)

\* route.fetchMiddleware without the loop up to the root: the node's own
\* middleware
fetchMiddlewareOwn(h, rs, n) ==
    [h |-> h, rs |-> rs, s |-> rs[n].middleware]

\* route.fetchMiddleware: [h, rs, s], the slice returned and what it left
\* in the heap and in r.cachedMiddleware
fetchMiddleware(h, rs, n) ==
    IF rs[n].rootNode THEN [h |-> h, rs |-> rs, s |-> rs[n].middleware]
    ELSE IF rs[n].cachedMiddleware.arr # NilArr
         THEN [h |-> h, rs |-> rs, s |-> rs[n].cachedMiddleware]
    ELSE LET f == fetchLoop(h, rs, n, NilSlice, <<"cache", n, 0>>)
         IN  [h |-> f.h,
              rs |-> [rs EXCEPT ![n].cachedMiddleware = f.s],
              s |-> f.s]

\* route.combineHandlers without the copy: the handlers are appended to
\* the slice fetchMiddleware returns
combineHandlersNoCopy(h, rs, n, handlers, e) ==
    LET f == fetchMiddleware(h, rs, n)
        a == GoAppend(f.h, f.s, handlers, <<"comb", e, 2>>)
    IN  [h |-> a.h, rs |-> f.rs, s |-> a.s]

\* route.combineHandlers for the e-th entry handed to httprouter
combineHandlers(h, rs, n, handlers, e) ==
    LET f == fetchMiddleware(h, rs, n)
        a1 == GoAppend(f.h, EmptySlice, Cells(f.h, f.s), <<"comb", e, 1>>)
        a2 == GoAppend(a1.h, a1.s, handlers, <<"comb", e, 2>>)
    IN  [h |-> a2.h, rs |-> f.rs, s |-> a2.s]

\* var methods with the last name missing
methodsShort == <<"GET", "POST", "PUT", "DELETE", "PATCH", "OPTIONS">>

\* var methods, a map: the method names in the order of the map literal
methods == <<"GET", "POST", "PUT", "DELETE", "PATCH", "OPTIONS", "HEAD">>

\* range over a map of one bucket: the slots in order, from a slot the
\* runtime picks, around to the slot before it
rangeFrom(m, k) == SubSeq(m, k, Len(m)) \o SubSeq(m, 1, k - 1)

RECURSIVE handleEach(_, _, _, _)
\* the loop of route.All: r.handle(v, path, handlers) for each v
handleEach(r, ms, path, handlers) ==
    IF Len(ms) = 0 THEN r
    ELSE handleEach(handle(r, ms[1], path, handlers), Tail(ms), path,
                    handlers)

\* route.All(path, handlers...), the range starting at slot k
All(r, path, handlers, k) ==
    handleEach(r, rangeFrom(methods, k), path, handlers)

\* the handlers a Use / Get call on node n passes: cnt of them, call i
NewHandlers(k, n, i, cnt) == [j \in 1..cnt |-> Hnd(k, n, i, j)]

\* route.Use(middleware...)
Use(h, rs, n, cnt) ==
    LET s == rs[n].middleware
        a == GoAppend(h, s, NewHandlers("mw", n, s.len + 1, cnt),
                      <<"mw", n, GrowCap(Cap(h, s), s.len + cnt)>>)
    IN  [h |-> a.h, rs |-> [rs EXCEPT ![n].middleware = a.s]]

\* route.Param(param, handler)
Param(rs, n, param, handler) ==
    [rs EXCEPT ![n].paramHandlers = (param :> handler) @@ @]

-----------------------------------------------------------------------------
(* httprouter, as the walk and ServeHTTP use it.                           *)

\* the segments of an absolute path, without the empty one before the
\* leading slash
Segs(name) == Tail(SplitSlash(name))

IsWild(seg) == Len(seg) > 0 /\ seg[1] = ":"

\* Router.Handle panics: "path must begin with '/'"
BadPath(name) == Len(name) < 1 \/ name[1] # Slash

\* Router.Handle panics: the path is registered already, or a wildcard
\* segment meets another segment at the same place of the tree
Conflict(p, q) ==
    LET a == Segs(p) b == Segs(q)
        m == IF Len(a) < Len(b) THEN Len(a) ELSE Len(b)
        diff == {i \in 1..m : a[i] # b[i]}
    IN  IF diff = {} THEN Len(a) = Len(b)
        ELSE LET i == CHOOSE k \in diff : \A j \in diff : k <= j
             IN  IsWild(a[i]) \/ IsWild(b[i])

HandlePanics(tb, method, name) ==
    \/ BadPath(name)
    \/ \E e \in DOMAIN tb : tb[e].method = method /\ Conflict(tb[e].name, name)

\* a registered pattern matches a request path
Matches(pattern, path) ==
    LET a == Segs(pattern) b == Segs(path) IN
    /\ Len(a) = Len(b)
    /\ \A i \in 1..Len(a) : a[i] = b[i] \/ (IsWild(a[i]) /\ b[i] # <<>>)

\* Router.ServeHTTP: the entry the request is routed to, 0 when none is
Lookup(tb, method, path) ==
    LET hits == {e \in DOMAIN tb :
                    tb[e].method = method /\ Matches(tb[e].name, path)}
    IN  IF hits = {} THEN 0 ELSE CHOOSE e \in hits : TRUE

\* Router.allowed: the path is registered for another method
Allowed(tb, method, path) ==
    \E e \in DOMAIN tb : tb[e].method # method /\ Matches(tb[e].name, path)

RECURSIVE ParamsOf(_, _)
\* httprouter.Params: the wildcards of the pattern with the segments they
\* matched, in path order
ParamsOf(a, b) ==
    IF Len(a) = 0 THEN <<>>
    ELSE (IF IsWild(a[1]) THEN <<[Key |-> Tail(a[1]), Value |-> b[1]]>>
          ELSE <<>>) \o ParamsOf(Tail(a), Tail(b))

-----------------------------------------------------------------------------
(* The request context: context.next and execParamChain.                   *)

\* the closure traverseAndConfigure hands to httprouter runs as the bottom
\* frame of a request's stack and calls ctx.next once
DispatchH == Hnd("dispatch", 0, 0, 0)

\* the value the i-th closure of execParamChain hands to its ParamHandler
\* when it is invoked. The closure reads p.Value of the range variable p;
\* the module is built as go 1.18, where the loop has one variable p, which
\* holds the last element of params once the loop is over
rangeVarValue(params, i) == params[Len(params)].Value

RECURSIVE pendingOf(_, _, _)
\* the loop of execParamChain: the closures appended to pending
pendingOf(params, handlers, i) ==
    IF i > Len(params) THEN <<>>
    ELSE (IF params[i].Key \in DOMAIN handlers
          THEN <<[handlers[params[i].Key]
                     EXCEPT !.v = rangeVarValue(params, i)]>>
          ELSE <<>>) \o pendingOf(params, handlers, i + 1)

RECURSIVE appendEach(_, _, _, _)
\* pending = append(pending, fn), once for each closure
appendEach(h, s, elems, id) ==
    IF Len(elems) = 0 THEN [h |-> h, s |-> s]
    ELSE LET a == GoAppend(h, s, <<elems[1]>>,
                           <<id[1], id[2], GrowCap(Cap(h, s), s.len + 1)>>)
         IN  appendEach(a.h, a.s, Tail(elems), id)

\* execParamChain(ctx, params, handlers) of request r: the heap and
\* ctx.handlers after it
execParamChain(h, ctxHandlers, params, handlers, r) ==
    IF DOMAIN handlers = {} THEN [h |-> h, s |-> ctxHandlers]
    ELSE LET pending == appendEach(h, EmptySlice,
                                   pendingOf(params, handlers, 1),
                                   <<"pending", r, 0>>)
         IN  GoAppend(pending.h, pending.s, Cells(pending.h, ctxHandlers),
                      <<"ctx", r, 0>>)

\* context.next on a chain that is not empty, without the pop: the head
\* stays in c.handlers
nextPopKeepsHead(h, s) ==
    [h |-> h, head |-> h[s.arr][s.off + 1], s |-> s]

\* context.next on a chain that is not empty, clearing the cell it pops
nextPopClearsCell(h, s) ==
    [h |-> [h EXCEPT ![s.arr][s.off + 1] = NoH],
     head |-> h[s.arr][s.off + 1],
     s |-> [s EXCEPT !.off = s.off + 1, !.len = s.len - 1]]

\* context.next on a chain that is not empty: h := c.handlers[0];
\* c.handlers = c.handlers[1:]
nextPop(h, s) ==
    [h |-> h,
     head |-> h[s.arr][s.off + 1],
     s |-> [s EXCEPT !.off = s.off + 1, !.len = s.len - 1]]

-----------------------------------------------------------------------------
(* The response: response.go. A request record q holds the                 *)
(* http.ResponseWriter net/http made for it (q.w) and the wrappedWriter    *)
(* around it (q.ww).                                                       *)

StatusOK == 200
StatusMovedPermanently == 301
StatusFound == 302
StatusUnauthorized == 401
StatusNotFound == 404
StatusInternalServerError == 500

NoHeader == [x \in {} |-> ""]

\* the http.ResponseWriter: calls are the codes its WriteHeader was invoked
\* with, status the code it sent (the first one, or 200 on a Write before
\* any), body the Write calls, Header its header map
NewWriter == [calls |-> <<>>, status |-> 0, body |-> 0, Header |-> NoHeader]

\* wrapWriter(original)
wrapWriter == [statusCode |-> 0, statusCodeWritten |-> FALSE]

\* ResponseWriter.WriteHeader(code)
rawWriteHeader(q, code) ==
    [q EXCEPT !.w.calls = Append(@, code),
              !.w.status = IF @ = 0 THEN code ELSE @]

\* ResponseWriter.Write(b)
rawWrite(q) ==
    [q EXCEPT !.w.status = IF @ = 0 THEN StatusOK ELSE @,
              !.w.body = @ + 1]

\* ResponseWriter.Header().Set(key, value)
rawSet(q, key, value) ==
    [q EXCEPT !.w.Header = (key :> value) @@ @]

\* wrappedWriter.WriteHeader without its guard
WriteHeaderUnguarded(q, code) ==
    rawWriteHeader([q EXCEPT !.ww.statusCodeWritten = TRUE,
                             !.ww.statusCode = code], code)

\* wrappedWriter.WriteHeader that does not keep the code
WriteHeaderForgets(q, code) ==
    IF ~q.ww.statusCodeWritten
    THEN rawWriteHeader([q EXCEPT !.ww.statusCodeWritten = TRUE], code)
    ELSE q

\* wrappedWriter.WriteHeader
WriteHeader(q, code) ==
    IF ~q.ww.statusCodeWritten
    THEN rawWriteHeader([q EXCEPT !.ww.statusCodeWritten = TRUE,
                                  !.ww.statusCode = code], code)
    ELSE q

\* wrappedWriter.Write
Write(q) ==
    rawWrite(IF ~q.ww.statusCodeWritten THEN WriteHeader(q, StatusOK) ELSE q)

\* http.Error(w, error, code) on the raw writer w
rawError(q, code) ==
    rawWrite(rawWriteHeader(
        rawSet(rawSet(q, "Content-Type", "text/plain; charset=utf-8"),
               "X-Content-Type-Options", "nosniff"), code))

\* http.Error(r.ww, error, code)
httpError(q, code) ==
    Write(WriteHeader(
        rawSet(rawSet(q, "Content-Type", "text/plain; charset=utf-8"),
               "X-Content-Type-Options", "nosniff"), code))

\* the Content-Type values without a charset that Response.Set completes
NeedsCharset(value) ==
    value \in {"text/plain", "text/html", "application/json"}

\* Response.Set(key, value), key in canonical form
Set(q, key, value) ==
    rawSet(q, key,
           IF key = "Content-Type" /\ NeedsCharset(value)
           THEN value \o "; charset=utf-8" ELSE value)

\* Response.Status(code)
Status(q, code) == WriteHeader(WriteHeader(q, code), code)

\* the end of Send, JSON, SendStatus: _, err = r.ww.Write(data), and
\* http.Error when the writer reports an error
writeOrError(q, ok) ==
    IF ok THEN Write(q) ELSE httpError(Write(q), StatusInternalServerError)

\* Response.SendStatus(statusCode)
SendStatus(q, code, ok) ==
    writeOrError(
        WriteHeader(Set(q, "Content-Type", "text/plain; charset=utf-8"),
                    code), ok)

\* Response.JSON(v): marshalled tells whether json.Marshal succeeds
JSON(q, marshalled, ok) ==
    IF ~marshalled THEN httpError(q, StatusInternalServerError)
    ELSE writeOrError(
             Set(q, "Content-Type", "application/json; charset=utf-8"), ok)

\* Response.Send(body), body a string
Send(q, ok) ==
    writeOrError(Set(q, "Content-Type", "text/plain; charset=utf-8"), ok)

\* Response.Send(body), body a []byte
SendBytes(q, ok) == writeOrError(q, ok)

\* mime.TypeByExtension(filepath.Ext(filename)) for the file names of the
\* scenarios; "" when the name has no extension or an unknown one
TypeByExtension(filename) ==
    IF filename = "a.png" THEN "image/png"
    ELSE IF filename = "a.html" THEN "text/html; charset=utf-8"
    ELSE ""

\* Response.Type(filename)
Type(q, filename) ==
    Set(q, "Content-Type",
        IF TypeByExtension(filename) = "" THEN "application/octet-stream"
        ELSE TypeByExtension(filename))

\* Response.Location(path)
Location(q, path) == Set(q, "Location", IF path = "" THEN "/" ELSE path)

\* Response.Redirect(path, status...)
Redirect(q, path, status) ==
    Status(Location(q, IF path = "" THEN "/" ELSE path),
           IF Len(status) > 0 THEN status[1] ELSE StatusFound)

\* Response.StatusCode() on a Response value rw of request q
StatusCode(q, rw) == q.ww.statusCode

\* an empty chain that answers nothing
NotFoundSilent(q) == q

\* context.next on an empty chain: http.NotFound(rw.ww, req.r) writes the
\* 404 answer of request q
NotFound(q) == httpError([q EXCEPT !.notFound = @ + 1], StatusNotFound)

-----------------------------------------------------------------------------
(* State.                                                                  *)

Nodes == 1..Len(routes)
Root == 1

RECURSIVE Ancestors(_, _)
\* the nodes from the root down to n, following the parent pointers
Ancestors(rs, n) ==
    IF n = NoNode THEN <<>> ELSE Append(Ancestors(rs, rs[n].parent), n)

\* no helper call is under way
NoCall == [fn |-> "none"]

InitState(l) ==
    /\ routes = <<newRoute(<<>>, basePath, TRUE, NoNode)>>
    /\ heap = (NilArr :> <<>>) @@ (EmptyArr :> <<>>)
    /\ table = <<>>
    /\ httpHandler = "placeholder"
    /\ once = [done |-> FALSE, m |-> 0]
    /\ walk = <<>>
    /\ reqs = <<>>
    /\ hist = [started |-> FALSE, walks |-> 0, panicked |-> FALSE,
               late |-> 0, lateUse |-> FALSE, params |-> 0, all |-> {},
               pre |-> <<>>, walked |-> <<>>,
               after |-> [entries |-> {}, routers |-> {}]]
    /\ lim = l

InitWith(l) == InitState(l) /\ call = NoCall

AllDone == \A r \in DOMAIN reqs : reqs[r].pc = "done"
\* the application is being set up: no ServeHTTP call has been made
Setup == ~hist.started
\* the walk has run and the caller registers more
Late == once.done /\ once.m = 0 /\ AllDone /\ hist.late < lim.late

-----------------------------------------------------------------------------
(* Registration: NewRouter, Use, Get/Post/..., Param.                      *)

NewRouter(n, path) ==
    /\ Setup
    /\ Len(routes) - 1 < lim.routers
    /\ routes' = newChild(routes, path, n)
    /\ UNCHANGED <<heap, table, httpHandler, once, walk, reqs, hist, lim, call>>

UseOn(n, cnt) ==
    LET u == Use(heap, routes, n, cnt) IN
    /\ routes' = u.rs
    /\ heap' = Collect(u.h, u.rs, table, reqs)
    /\ UNCHANGED <<table, httpHandler, once, walk, reqs, lim, call>>

\* the routers under node n
Below(n) == {m \in Nodes \ {n} : n \in Range(Ancestors(routes, m))}

\* the entries of node n and of the routers under it
EntriesBelow(n) ==
    UNION {{<<m, i>> : i \in 1..Len(routes[m].paths)} :
              m \in Below(n) \cup {n}}

\* route.Use before the first request; where the scenario asks for it,
\* hist.after keeps the entries and routers that were there before the call
SetupUse(n, cnt) ==
    /\ Setup
    /\ routes[n].middleware.len + cnt <= lim.use
    /\ UseOn(n, cnt)
    /\ hist' = IF lim.order
               THEN [hist EXCEPT !.after.entries = @ \cup EntriesBelow(n),
                                 !.after.routers = @ \cup Below(n)]
               ELSE hist

LateUse(n, cnt) ==
    /\ Late
    /\ UseOn(n, cnt)
    /\ hist' = [hist EXCEPT !.late = @ + 1, !.lateUse = TRUE]

TotalEntries == LET RECURSIVE sum(_)
                    sum(n) == IF n = 0 THEN 0
                              ELSE Len(routes[n].paths) + sum(n - 1)
                IN  sum(Len(routes))

\* a mutant of HandleOn: after the walk the entry is handed to the path
\* matcher as well
HandleOnRegisters(n, method, path, cnt) ==
    /\ routes' = [routes EXCEPT ![n] =
          handle(@, method, path,
                 NewHandlers("h", n, Len(routes[n].paths) + 1, cnt))]
    /\ table' = IF once.done
                THEN Append(table, [method |-> method,
                                    name |-> getFullPath(routes[n], path),
                                    handlers |-> EmptySlice, node |-> n,
                                    idx |-> Len(routes[n].paths) + 1])
                ELSE table
    /\ UNCHANGED <<heap, httpHandler, once, walk, reqs, lim, call>>

HandleOn(n, method, path, cnt) ==
    /\ routes' = [routes EXCEPT ![n] =
          handle(@, method, path,
                 NewHandlers("h", n, Len(routes[n].paths) + 1, cnt))]
    /\ UNCHANGED <<heap, table, httpHandler, once, walk, reqs, lim, call>>

SetupHandle(n, method, path, cnt) ==
    /\ Setup
    /\ TotalEntries - Len(methods) * Cardinality(hist.all) < lim.entries
    /\ HandleOn(n, method, path, cnt)
    /\ UNCHANGED hist

\* Get/Post/... after the walk
LateHandle(n, method, path, cnt) ==
    /\ Late
    /\ HandleOn(n, method, path, cnt)
    /\ hist' = [hist EXCEPT !.late = @ + 1]

\* route.All before the first request; hist.all keeps the call
SetupAll(n, path, cnt, k) ==
    LET hs == NewHandlers("h", n, Len(routes[n].paths) + 1, cnt) IN
    /\ Setup
    /\ Cardinality(hist.all) < lim.alls
    /\ routes' = [routes EXCEPT ![n] = All(@, path, hs, k)]
    /\ hist' = [hist EXCEPT !.all = @ \cup
                    {[node |-> n, from |-> Len(routes[n].paths) + 1,
                      path |-> path, handlers |-> hs]}]
    /\ UNCHANGED <<heap, table, httpHandler, once, walk, reqs, lim, call>>

SetupParam(n, name) ==
    /\ Setup
    /\ hist.params < lim.params
    /\ routes' = Param(routes, n, name, Hnd("ph", n, hist.params + 1, 0))
    /\ hist' = [hist EXCEPT !.params = @ + 1]
    /\ UNCHANGED <<heap, table, httpHandler, once, walk, reqs, lim, call>>

-----------------------------------------------------------------------------
(* App.ServeHTTP: sync.Once, the walk, the routing.                        *)

RECURSIVE Instance(_)
\* a path the pattern matches: each wildcard segment ":x" replaced by "vx"
Instance(segs) ==
    IF Len(segs) = 0 THEN <<>>
    ELSE <<Slash>> \o (IF IsWild(segs[1]) THEN <<"v">> \o Tail(segs[1])
                       ELSE segs[1]) \o Instance(Tail(segs))

\* the requests clients send: for each Get/Post/... call made so far, the
\* path as registered and a path its pattern matches
Targets ==
    UNION {UNION {{<<routes[n].paths[i].method, q>> :
                      q \in {x \in {routes[n].paths[i].name,
                                    Instance(Segs(routes[n].paths[i].name))} :
                                ~BadPath(x)}} :
                  i \in 1..Len(routes[n].paths)} :
           n \in Nodes}

NewReq(method, path) ==
    [pc |-> "once", method |-> method, path |-> path,
     handlers |-> NilSlice, stack |-> <<>>, invoked |-> <<>>,
     notFound |-> 0, out |-> "none", via |-> "none", entry |-> 0,
     seen |-> 0, allNext |-> TRUE, stopped |-> FALSE, again |-> FALSE,
     afterStop |-> FALSE, full |-> <<>>, lateUse |-> FALSE,
     w |-> NewWriter, ww |-> wrapWriter, ops |-> 0, first |-> <<>>,
     committer |-> NoH, read |-> <<>>]

\* a client's request arrives: net/http calls App.ServeHTTP in a goroutine
\* of its own
ServeHTTP(method, path) ==
    /\ Len(reqs) < lim.reqs
    /\ lim.conc \/ AllDone
    /\ reqs' = Append(reqs, NewReq(method, path))
    /\ hist' = [hist EXCEPT !.started = TRUE]
    /\ UNCHANGED <<routes, heap, table, httpHandler, once, walk, lim, call>>

\* sync.Once.Do, fast path: o.done is loaded
OnceDo(r) ==
    /\ reqs[r].pc = "once"
    /\ reqs' = [reqs EXCEPT ![r].pc = IF once.done THEN "serve" ELSE "lock"]
    /\ UNCHANGED <<routes, heap, table, httpHandler, once, walk, hist, lim, call>>

\* what the walk starts from: each node's own middleware and entries
PreWalk == [n \in Nodes |->
               [mw |-> Cells(heap, routes[n].middleware),
                np |-> Len(routes[n].paths)]]

\* the frame of one traverseAndConfigure(r) call: the range over r.paths
\* is at entry i of n, kids are the children the range over r.children has
\* not reached
WalkFrame(n) ==
    [node |-> n, i |-> 1, last |-> Len(routes[n].paths),
     kids |-> Range(routes[n].children)]

\* sync.Once.doSlow without the second look at o.done under the lock
OnceSlowNoRecheck(r) ==
    /\ reqs[r].pc = "lock"
    /\ once.m = 0
    /\ once' = [once EXCEPT !.m = r]
    /\ reqs' = [reqs EXCEPT ![r].pc = "walk"]
    /\ walk' = <<WalkFrame(Root)>>
    /\ hist' = [hist EXCEPT !.walks = @ + 1, !.pre = PreWalk]
    /\ UNCHANGED <<routes, heap, table, httpHandler, lim, call>>

\* sync.Once.doSlow: o.m.Lock(); if o.done is still 0, f runs:
\* a.configureRoutes() enters traverseAndConfigure(a.route)
OnceSlow(r) ==
    /\ reqs[r].pc = "lock"
    /\ once.m = 0
    /\ IF once.done
       THEN /\ reqs' = [reqs EXCEPT ![r].pc = "serve"]
            /\ UNCHANGED <<once, walk, hist>>
       ELSE /\ once' = [once EXCEPT !.m = r]
            /\ reqs' = [reqs EXCEPT ![r].pc = "walk"]
            /\ walk' = <<WalkFrame(Root)>>
            /\ hist' = [hist EXCEPT !.walks = @ + 1, !.pre = PreWalk]
    /\ UNCHANGED <<routes, heap, table, httpHandler, lim, call>>

Top == walk[Len(walk)]

\* one turn of the loop over r.paths: combineHandlers, then r.hr.Handle,
\* which panics on a path it does not accept. The panic leaves once.Do
\* through its defers (o.done is stored, o.m unlocked) and ends the call
traverseAndConfigure(r) ==
    /\ reqs[r].pc = "walk"
    /\ walk # <<>>
    /\ Top.i <= Top.last
    /\ LET n == Top.node
           path == routes[n].paths[Top.i]
           e == Len(table) + 1
           c == combineHandlers(heap, routes, n, path.handlers, e)
       IN  IF HandlePanics(table, path.method, path.name)
           THEN /\ routes' = c.rs
                /\ heap' = Collect(c.h, c.rs, table, reqs)
                /\ walk' = <<>>
                /\ once' = [done |-> TRUE, m |-> 0]
                /\ reqs' = [reqs EXCEPT ![r].pc = "done", ![r].out = "panic"]
                /\ hist' = [hist EXCEPT !.panicked = TRUE]
                /\ UNCHANGED <<table, httpHandler>>
           ELSE /\ routes' = c.rs
                /\ table' = Append(table, [method |-> path.method,
                                           name |-> path.name,
                                           handlers |-> c.s,
                                           node |-> n, idx |-> Top.i])
                /\ heap' = Collect(c.h, c.rs, table', reqs)
                /\ walk' = [walk EXCEPT ![Len(walk)].i = @ + 1]
                /\ hist' = [hist EXCEPT !.walked =
                               Append(@, [node |-> n, idx |-> Top.i,
                                          chain |-> Cells(c.h, c.s)])]
                /\ UNCHANGED <<httpHandler, once, reqs>>
    /\ UNCHANGED <<lim, call>>

\* the loop over r.children, a map: any child not yet visited comes next
traverseChild(r) ==
    /\ reqs[r].pc = "walk"
    /\ walk # <<>>
    /\ Top.i > Top.last
    /\ \E c \in Top.kids :
          walk' = Append([walk EXCEPT ![Len(walk)].kids = @ \ {c}],
                         WalkFrame(c))
    /\ UNCHANGED <<routes, heap, table, httpHandler, once, reqs, hist, lim, call>>

\* traverseAndConfigure returns; when configureRoutes has returned,
\* a.httpHandler = a.router and once.Do is over
traverseReturn(r) ==
    /\ reqs[r].pc = "walk"
    /\ walk # <<>>
    /\ Top.i > Top.last
    /\ Top.kids = {}
    /\ walk' = SubSeq(walk, 1, Len(walk) - 1)
    /\ IF Len(walk) = 1
       THEN /\ httpHandler' = "router"
            /\ once' = [done |-> TRUE, m |-> 0]
            /\ reqs' = [reqs EXCEPT ![r].pc = "serve"]
       ELSE UNCHANGED <<httpHandler, once, reqs>>
    /\ UNCHANGED <<routes, heap, table, hist, lim, call>>

\* a.httpHandler.ServeHTTP(w, req): the placeholder answers 500; the
\* router answers 404 when no entry matches, and runs the matched entry's
\* closure otherwise: the context is built on the entry's handlers,
\* execParamChain prepends the param closures, and ctx.next is to be called
Route(r) ==
    /\ reqs[r].pc = "serve"
    /\ LET e == Lookup(table, reqs[r].method, reqs[r].path) IN
       IF httpHandler = "placeholder"
       THEN /\ reqs' = [reqs EXCEPT ![r] =
                           [rawError(@, StatusInternalServerError)
                               EXCEPT !.pc = "done",
                                      !.out = "notConfigured",
                                      !.via = "placeholder"]]
            /\ UNCHANGED heap
       ELSE IF e = 0 /\ Allowed(table, reqs[r].method, reqs[r].path)
       THEN \* HandleOPTIONS: the Allow header and no more; or
            \* HandleMethodNotAllowed: the Allow header and http.Error 405
            /\ reqs' = [reqs EXCEPT ![r] =
                  [(IF reqs[r].method = "OPTIONS" THEN rawSet(@, "Allow", "*")
                    ELSE rawError(rawSet(@, "Allow", "*"), 405))
                      EXCEPT !.pc = "done",
                             !.out = IF reqs[r].method = "OPTIONS"
                                     THEN "options" ELSE "methodNotAllowed",
                             !.via = "router", !.seen = Len(table)]]
            /\ UNCHANGED heap
       ELSE IF e = 0
       THEN /\ reqs' = [reqs EXCEPT ![r] =
                           [rawError(@, StatusNotFound)
                               EXCEPT !.pc = "done", !.out = "noRoute",
                                      !.via = "router",
                                      !.seen = Len(table)]]
            /\ UNCHANGED heap
       ELSE LET x == execParamChain(heap, table[e].handlers,
                        ParamsOf(Segs(table[e].name), Segs(reqs[r].path)),
                        routes[table[e].node].paramHandlers, r)
                rq == [reqs EXCEPT ![r].pc = "chain",
                          ![r].via = "router", ![r].seen = Len(table),
                          ![r].entry = e,
                          ![r].lateUse = hist.lateUse,
                          ![r].handlers = x.s,
                          ![r].full = Cells(x.h, x.s),
                          ![r].ww = wrapWriter,
                          ![r].stack = <<[h |-> DispatchH, made |-> 0,
                                          rw |-> [ww |-> r]]>>]
            IN  /\ reqs' = rq
                /\ heap' = Collect(x.h, routes, table, rq)
    /\ UNCHANGED <<routes, table, httpHandler, once, walk, hist, lim, call>>

Frame(r) == reqs[r].stack[Len(reqs[r].stack)]

\* the running handler of request r calls next (the bottom frame, the
\* entry's closure, calls it once): context.next
next(r) ==
    /\ reqs[r].pc = "chain"
    /\ Frame(r).made < (IF Frame(r).h = DispatchH THEN 1 ELSE lim.next)
    /\ LET q == reqs[r]
           caller == [q.stack EXCEPT ![Len(q.stack)].made = @ + 1]
           again == q.again \/ Frame(r).made > 0
       IN  IF q.handlers.len = 0
           THEN /\ reqs' = [reqs EXCEPT ![r] = NotFound(q),
                               ![r].first = IF q.ww.statusCodeWritten
                                            THEN @ ELSE <<"next">>,
                               ![r].committer = IF q.ww.statusCodeWritten
                                                THEN @ ELSE Frame(r).h,
                               ![r].stack = caller,
                               ![r].again = again,
                               ![r].afterStop = @ \/ q.stopped]
                /\ UNCHANGED heap
           ELSE LET p == nextPop(heap, q.handlers) IN
                /\ reqs' = [reqs EXCEPT
                               ![r].handlers = p.s,
                               ![r].invoked = Append(@, p.head),
                               ![r].stack = Append(caller,
                                               [h |-> p.head, made |-> 0,
                                                rw |-> Frame(r).rw]),
                               ![r].again = again,
                               ![r].afterStop = @ \/ q.stopped]
                /\ heap' = p.h
    /\ UNCHANGED <<routes, table, httpHandler, once, walk, hist, lim, call>>

\* the running handler of request r returns; when the entry's closure
\* returns, the request is over
Return(r) ==
    /\ reqs[r].pc = "chain"
    /\ Frame(r).h = DispatchH => Frame(r).made = 1
    /\ LET q == reqs[r]
           rest == SubSeq(q.stack, 1, Len(q.stack) - 1)
           rq == [reqs EXCEPT
                     ![r].stack = rest,
                     ![r].allNext = @ /\ Frame(r).made > 0,
                     ![r].stopped = @ \/ Frame(r).made = 0,
                     ![r].pc = IF rest = <<>> THEN "done" ELSE "chain",
                     ![r].out = IF rest = <<>> THEN "served" ELSE @,
                     ![r].handlers = IF rest = <<>> THEN NilSlice ELSE @]
       IN  /\ reqs' = rq
           /\ heap' = Collect(heap, routes, table, rq)
    /\ UNCHANGED <<routes, table, httpHandler, once, walk, hist, lim, call>>

\* the Response calls a handler makes: Status, SendStatus, Send, JSON and
\* Redirect, the writer reporting an error or not
ResponseCalls ==
    {<<"Status", StatusUnauthorized>>, <<"Redirect", <<>>>>,
     <<"Redirect", <<StatusMovedPermanently>>>>, <<"JSON", FALSE, TRUE>>}
      \cup {<<"SendStatus", StatusUnauthorized, ok>> : ok \in BOOLEAN}
      \cup {<<"Send", ok>> : ok \in BOOLEAN}
      \cup {<<"JSON", TRUE, ok>> : ok \in BOOLEAN}

\* the Response calls of the Content-Type scenario: Set and Type, then
\* Send with a string or with bytes, the writer reporting an error or not
SendCalls ==
    {<<"Set", "Content-Type", "text/html">>, <<"Type", "a.png">>,
     <<"Type", "text/plain">>}
      \cup {<<"Send", ok>> : ok \in BOOLEAN}
      \cup {<<"SendBytes", ok>> : ok \in BOOLEAN}

\* the request record after the call
Apply(q, op) ==
    IF op[1] = "Status" THEN Status(q, op[2])
    ELSE IF op[1] = "Set" THEN Set(q, op[2], op[3])
    ELSE IF op[1] = "Type" THEN Type(q, op[2])
    ELSE IF op[1] = "SendBytes" THEN SendBytes(q, op[2])
    ELSE IF op[1] = "SendStatus" THEN SendStatus(q, op[2], op[3])
    ELSE IF op[1] = "Send" THEN Send(q, op[2])
    ELSE IF op[1] = "JSON" THEN JSON(q, op[2], op[3])
    ELSE Redirect(q, "", op[2])

\* the running handler of request r calls a method of its Response value:
\* the value holds the pointer rw.ww to the request's wrappedWriter
Respond(r, op) ==
    /\ reqs[r].pc = "chain"
    /\ Frame(r).h # DispatchH
    /\ reqs[r].ops < lim.ops
    /\ LET t == Frame(r).rw.ww
           q == Apply(reqs[t], op)
       IN  reqs' = [reqs EXCEPT ![t] =
              [q EXCEPT !.ops = @ + 1,
                        !.first = IF reqs[t].ww.statusCodeWritten
                                     \/ ~q.ww.statusCodeWritten
                                  THEN @ ELSE op,
                        !.committer =
                            IF reqs[t].ww.statusCodeWritten
                               \/ ~q.ww.statusCodeWritten
                            THEN @ ELSE Frame(r).h]]
    /\ UNCHANGED <<routes, heap, table, httpHandler, once, walk, hist, lim, call>>

\* the running handler of request r, after its next call has returned,
\* reads res.StatusCode()
ReadStatus(r) ==
    /\ reqs[r].pc = "chain"
    /\ Frame(r).h # DispatchH
    /\ Frame(r).made > 0
    /\ reqs[r].ops < lim.ops
    /\ reqs' = [reqs EXCEPT
                   ![r].ops = @ + 1,
                   ![r].read = Append(@,
                       [by |-> Frame(r).h,
                        code |-> StatusCode(reqs[Frame(r).rw.ww],
                                            Frame(r).rw),
                        sent |-> reqs[r].w.status,
                        committer |-> reqs[r].committer])]
    /\ UNCHANGED <<routes, heap, table, httpHandler, once, walk, hist, lim, call>>

-----------------------------------------------------------------------------
(* Scenarios.                                                              *)

PathA == <<"/", "a">>
PathB == <<"/", "b">>
PathX == <<"/", "x">>
PathI == <<"/", ":", "i">>
PathIN == <<"/", ":", "i", "/", ":", "n">>
NameI == <<"i">>
NameN == <<"n">>

\* what no scenario does unless it says so
LimNone ==
    [routers |-> 0, use |-> 0, useArgs |-> {1}, entries |-> 0, eh |-> {1},
     params |-> 0, reqs |-> 1, conc |-> FALSE, next |-> 1, late |-> 0,
     rpaths |-> {PathA}, epaths |-> {PathX}, methods |-> {"GET"},
     pnames |-> {NameI}, pnodes |-> {Root}, perNode |-> 2, alls |-> 0,
     ops |-> 0, order |-> FALSE]

\* routers, entries on them and a param handler on the root; one request
LimTree ==
    [LimNone EXCEPT !.routers = MaxRouters, !.use = 1,
                    !.entries = MaxEntries, !.params = 1,
                    !.epaths = {<<>>, PathX, PathI}]

\* middleware on a tree of routers, each with one entry at most; a request
\* starts the walk
LimMw ==
    [LimNone EXCEPT !.routers = 2, !.use = MaxUse, !.entries = 3,
                    !.perNode = 1, !.rpaths = {PathA, PathB}]

\* a router under the root; a request starts the walk, more middleware is
\* added after it, a request follows
LimLate ==
    [LimNone EXCEPT !.routers = 1, !.use = MaxUse, !.entries = 2,
                    !.perNode = 1, !.reqs = 2, !.late = MaxLate]

\* one node with one entry; a request starts the walk, another entry is
\* registered after it, a request follows
LimLateEntry ==
    [LimNone EXCEPT !.entries = 1, !.reqs = 2, !.late = MaxLate,
                    !.methods = {"GET", "POST", "OPTIONS"},
                    !.epaths = {PathX, PathA, PathI},
                    !.perNode = 1 + MaxLate]

\* middleware on a tree of routers, before and after the routers and the
\* entries are made; a request starts the walk
LimCommute ==
    [LimNone EXCEPT !.routers = MaxRouters, !.use = 2, !.entries = 1,
                    !.order = TRUE]

\* one node; requests arrive together
LimOnce ==
    [LimNone EXCEPT !.use = 1, !.entries = 2, !.params = 1,
                    !.reqs = MaxReqs, !.conc = TRUE,
                    !.epaths = {<<>>, PathX, PathI}]

\* one node; the handlers of one request call next as they like
LimChain ==
    [LimNone EXCEPT !.use = MaxUseServe, !.entries = 1, !.eh = {0, 1, 2},
                    !.params = MaxParams, !.next = MaxNextCalls,
                    !.epaths = {PathX, PathIN}, !.pnames = {NameI, NameN}]

\* one node; All and one more registration, requests one after the other
LimAll ==
    [LimNone EXCEPT !.use = 1, !.entries = 1, !.alls = 1,
                    !.reqs = 2, !.methods = Range(methods),
                    !.epaths = {PathX, PathA},
                    !.perNode = 1 + Len(methods)]

\* one node with middleware and an entry; the handlers of one request
\* call the methods of the response
LimResp ==
    [LimNone EXCEPT !.use = 1, !.entries = 1, !.ops = MaxOps]

Routers == \E n \in Nodes, p \in lim.rpaths : NewRouter(n, p)

Middleware == \E n \in Nodes, c \in lim.useArgs : SetupUse(n, c)

Entries ==
    \E n \in Nodes, m \in lim.methods, p \in lim.epaths, c \in lim.eh :
        /\ Len(routes[n].paths) < lim.perNode
        /\ SetupHandle(n, m, p, c)

AllMethods ==
    \E n \in Nodes, p \in lim.epaths, c \in lim.eh, k \in DOMAIN methods :
        SetupAll(n, p, c, k)

Params == \E n \in lim.pnodes \cap Nodes, p \in lim.pnames : SetupParam(n, p)

LateMiddleware == \E n \in Nodes, c \in lim.useArgs : LateUse(n, c)

Serving ==
    \/ \E t \in Targets : ServeHTTP(t[1], t[2])
    \/ \E r \in DOMAIN reqs : OnceDo(r)
    \/ \E r \in DOMAIN reqs : OnceSlow(r)
    \/ \E r \in DOMAIN reqs : traverseAndConfigure(r)
    \/ \E r \in DOMAIN reqs : traverseReturn(r)
    \/ \E r \in DOMAIN reqs : Route(r)
    \/ \E r \in DOMAIN reqs : next(r)
    \/ \E r \in DOMAIN reqs : Return(r)

Descending == \E r \in DOMAIN reqs : traverseChild(r)

Init == InitWith(LimTree)
Next == Routers \/ Middleware \/ Entries \/ Params \/ Serving \/ Descending
Spec == Init /\ [][Next]_vars

InitMw == InitWith(LimMw)
NextMw == Routers \/ Middleware \/ Entries \/ Serving \/ Descending
SpecMw == InitMw /\ [][NextMw]_vars

InitCommute == InitWith(LimCommute)
NextCommute == Routers \/ Middleware \/ Entries \/ Serving \/ Descending
SpecCommute == InitCommute /\ [][NextCommute]_vars

InitLate == InitWith(LimLate)
NextLate ==
    Routers \/ Middleware \/ Entries \/ LateMiddleware \/ Serving
      \/ Descending
SpecLate == InitLate /\ [][NextLate]_vars

InitOnce == InitWith(LimOnce)
NextOnce == Middleware \/ Entries \/ Params \/ Serving
SpecOnce == InitOnce /\ [][NextOnce]_vars

InitChain == InitWith(LimChain)
NextChain == Middleware \/ Entries \/ Params \/ Serving
SpecChain == InitChain /\ [][NextChain]_vars

\* the goroutine serving a request keeps running: a handler that is running
\* calls next or returns
ChainStep == \E r \in DOMAIN reqs : next(r) \/ Return(r)

SpecChainFair == InitChain /\ [][NextChain]_vars /\ WF_vars(ChainStep)

Responding ==
    \/ \E r \in DOMAIN reqs, op \in ResponseCalls : Respond(r, op)
    \/ \E r \in DOMAIN reqs : ReadStatus(r)

InitResp == InitWith(LimResp)
NextResp == Middleware \/ Entries \/ Serving \/ Responding
SpecResp == InitResp /\ [][NextResp]_vars

Sending == \E r \in DOMAIN reqs, op \in SendCalls : Respond(r, op)

InitSend == InitWith(LimResp)
NextSend == Middleware \/ Entries \/ Serving \/ Sending
SpecSend == InitSend /\ [][NextSend]_vars

LateEntries ==
    \E n \in Nodes, m \in lim.methods, p \in lim.epaths, c \in lim.eh :
        LateHandle(n, m, p, c)

InitLateEntry == InitWith(LimLateEntry)
NextLateEntry == Entries \/ LateEntries \/ Serving
SpecLateEntry == InitLateEntry /\ [][NextLateEntry]_vars

InitAll == InitWith(LimAll)
NextAll == Middleware \/ Entries \/ AllMethods \/ Serving
SpecAll == InitAll /\ [][NextAll]_vars

-----------------------------------------------------------------------------
(* Request.Range (request.go): the byte ranges of the Range header.        *)

MaxClauses == 2      \* comma-separated clauses of one Range header
MaxSize == 3         \* the small size arguments of Range
TestSize == 1000     \* the size argument of TestRequest_Range

Space == " "
Comma == ","
Dash == "-"
Plus == "+"
BytesEq == <<"b", "y", "t", "e", "s", "=">>
Digits == <<"0", "1", "2", "3", "4", "5", "6", "7", "8", "9">>

\* strings.HasPrefix
HasPrefix(s, prefix) ==
    Len(s) >= Len(prefix) /\ SubSeq(s, 1, Len(prefix)) = prefix

RECURSIVE Split(_, _)
\* strings.Split(s, sep) for a one-character sep
Split(s, sep) ==
    IF \A i \in 1..Len(s) : s[i] # sep THEN <<s>>
    ELSE LET i == CHOOSE k \in 1..Len(s) :
                      s[k] = sep /\ \A j \in 1..(k-1) : s[j] # sep
         IN  <<SubSeq(s, 1, i-1)>> \o Split(SubSeq(s, i+1, Len(s)), sep)

\* strings.SplitN(s, sep, 2): cut at the first sep, if there is one
SplitN2(s, sep) ==
    IF \A i \in 1..Len(s) : s[i] # sep THEN <<s>>
    ELSE LET i == CHOOSE k \in 1..Len(s) :
                      s[k] = sep /\ \A j \in 1..(k-1) : s[j] # sep
         IN  <<SubSeq(s, 1, i-1), SubSeq(s, i+1, Len(s))>>

RECURSIVE TrimSpace(_)
\* strings.TrimSpace
TrimSpace(s) ==
    IF s # <<>> /\ Head(s) = Space THEN TrimSpace(Tail(s))
    ELSE IF s # <<>> /\ s[Len(s)] = Space
         THEN TrimSpace(SubSeq(s, 1, Len(s) - 1))
         ELSE s

RECURSIVE Atoi(_)
\* the value of a non-empty string of decimal digits
Atoi(s) ==
    IF s = <<>> THEN 0
    ELSE 10 * Atoi(SubSeq(s, 1, Len(s) - 1))
           + (CHOOSE d \in 0..9 : Digits[d + 1] = s[Len(s)])

\* strconv.ParseInt(s, 10, 64): an optional sign, then one digit or more.
\* The strings of the scenarios are shorter than 19 digits, so the value
\* is always in range.
ParseInt(s) ==
    LET signed == s # <<>> /\ Head(s) \in {Plus, Dash}
        body == IF signed THEN Tail(s) ELSE s
    IN  IF body = <<>> \/ \E i \in 1..Len(body) : body[i] \notin Range(Digits)
        THEN [ok |-> FALSE, v |-> 0]
        ELSE [ok |-> TRUE,
              v |-> IF Head(s) = Dash THEN 0 - Atoi(body) ELSE Atoi(body)]

\* a mutant of Unsatisfiable: the end of the resource is not checked
UnsatisfiableNoEnd(start, end, size) == start > end \/ start < 0

\* the check that drops a range: reversed, or outside the resource
Unsatisfiable(start, end, size) == start > end \/ start < 0 \/ end >= size

RECURSIVE rangeLoop(_, _, _)
\* the loop of Range over the clauses; ranges is what is appended so far
rangeLoop(rangesStr, size, ranges) ==
    IF rangesStr = <<>>
    THEN IF Len(ranges) = 0
         THEN [ranges |-> <<>>, err |-> "no satisfiable range found"]
         ELSE [ranges |-> ranges, err |-> ""]
    ELSE
    LET rStr == TrimSpace(Head(rangesStr))
        rangeParts == SplitN2(rStr, Dash)
        startStr == TrimSpace(rangeParts[1])
        endStr == TrimSpace(rangeParts[2])
        ps == ParseInt(startStr)
        pe == ParseInt(endStr)
        end0 == IF endStr # <<>> THEN pe.v ELSE 0
        start == IF startStr = <<>> THEN size - end0 ELSE ps.v
        end == IF startStr = <<>> \/ endStr = <<>> THEN size - 1 ELSE end0
    IN  IF rStr = <<>> THEN rangeLoop(Tail(rangesStr), size, ranges)
        ELSE IF Len(rangeParts) # 2
        THEN [ranges |-> <<>>, err |-> "invalid range format"]
        ELSE IF startStr # <<>> /\ ~ps.ok
        THEN [ranges |-> <<>>, err |-> "invalid range start value"]
        ELSE IF endStr # <<>> /\ ~pe.ok
        THEN [ranges |-> <<>>, err |-> "invalid range end value"]
        ELSE IF Unsatisfiable(start, end, size)
        THEN rangeLoop(Tail(rangesStr), size, ranges)
        ELSE rangeLoop(Tail(rangesStr), size,
                       Append(ranges, [Start |-> start, End |-> end]))

\* Request.Range(size) with the value of the Range header ("" when absent)
RequestRange(rangeHeader, size) ==
    IF rangeHeader = <<>> THEN [ranges |-> <<>>, err |-> ""]
    ELSE IF ~HasPrefix(rangeHeader, BytesEq)
    THEN [ranges |-> <<>>, err |-> "invalid range specifier"]
    ELSE rangeLoop(Split(SubSeq(rangeHeader, 7, Len(rangeHeader)), Comma),
                   size, <<>>)

RECURSIVE JoinComma(_)
\* the clauses of a header, written with commas between them
JoinComma(clauses) ==
    IF Len(clauses) = 0 THEN <<>>
    ELSE IF Len(clauses) = 1 THEN clauses[1]
    ELSE clauses[1] \o <<Comma>> \o JoinComma(Tail(clauses))

\* the clauses the scenarios write: both bounds, one bound, none, reversed,
\* past the end, not a number, no dash, empty, padded, signed
Clauses ==
    { <<"0", "-", "1">>, <<"1", "-">>, <<"-", "1">>, <<"-", "2">>,
      <<"2", "-", "1">>, <<"1", "-", "9">>, <<"-">>, <<"x", "-", "1">>,
      <<"1", "-", "x">>, <<"1">>, <<>>, <<" ", "0", " ", "-", " ", "0", " ">>,
      <<"1", "-", "-", "1">>, <<"-", "-", "1">>, <<"-", "0">>,
      <<"0", "-", "4", "9", "9">>,
      <<"1", "0", "0", "0", "-", "1", "5", "0", "0">> }

\* the units the scenarios write before the clauses
Units == { BytesEq, <<"i", "t", "e", "m", "s", "=">> }

\* the sequences of at most n elements of S
SeqUpTo(S, n) == UNION {[1..k -> S] : k \in 0..n}

\* the size arguments of the scenarios
Sizes == 0..MaxSize \cup {TestSize}

\* the Range calls of the scenarios: no header, or a unit and clauses
RangeCalls ==
    { [fn |-> "Range", unit |-> <<>>, clauses |-> <<>>, header |-> <<>>,
       size |-> sz, done |-> FALSE, ranges |-> <<>>, err |-> ""] :
         sz \in Sizes }
    \cup
    { [fn |-> "Range", unit |-> u, clauses |-> cs,
       header |-> u \o JoinComma(cs),
       size |-> sz, done |-> FALSE, ranges |-> <<>>, err |-> ""] :
         u \in Units, cs \in SeqUpTo(Clauses, MaxClauses),
         sz \in Sizes }

\* a handler calls req.Range(size)
CallRange ==
    /\ call.fn = "Range"
    /\ ~call.done
    /\ LET res == RequestRange(call.header, call.size)
       IN  call' = [call EXCEPT !.done = TRUE, !.ranges = res.ranges,
                                !.err = res.err]
    /\ UNCHANGED <<routes, heap, table, httpHandler, once, walk, reqs, hist,
                   lim>>

InitRange == InitState(LimNone) /\ call \in RangeCalls
NextRange == CallRange
SpecRange == InitRange /\ [][NextRange]_vars

-----------------------------------------------------------------------------
(* Response.Vary (response.go): the Vary header of one response.           *)

MaxVary == 3         \* Vary calls on one response

Star == <<"*">>
Origin == <<"O", "r", "i", "g", "i", "n">>
Accept == <<"A", "c", "c", "e", "p", "t">>

\* Response.Vary(field) on a response whose Vary header is existingHeader
\* ("" when it has none): the header after the call.  r.Set stores the
\* value as it is, the key not being Content-Type.
Vary(existingHeader, field) ==
    LET fields == Split(existingHeader, Comma)
    IN  IF field = <<>> THEN existingHeader
        ELSE IF existingHeader = Star \/ field = Star THEN Star
        ELSE IF \E k \in DOMAIN fields : TrimSpace(fields[k]) = field
        THEN existingHeader
        ELSE IF existingHeader # <<>>
        THEN existingHeader \o <<Comma, Space>> \o field
        ELSE field

\* the field arguments of the scenarios: two names, the star, no name, a
\* name after a space, two names in one argument
VaryFields ==
    { Origin, Accept, Star, <<>>, <<Space>> \o Origin,
      Accept \o <<Comma, Space>> \o Origin }

\* the responses of the scenarios: without Vary header, or with "*"
VaryCalls ==
    { [fn |-> "Vary", before |-> h, header |-> h, fields |-> <<>>] :
        h \in {<<>>, Star} }

\* a handler calls res.Vary(field)
CallVary(field) ==
    /\ call.fn = "Vary"
    /\ Len(call.fields) < MaxVary
    /\ call' = [call EXCEPT !.header = Vary(call.header, field),
                            !.fields = Append(@, field)]
    /\ UNCHANGED <<routes, heap, table, httpHandler, once, walk, reqs, hist,
                   lim>>

InitVary == InitState(LimNone) /\ call \in VaryCalls
NextVary == \E field \in VaryFields : CallVary(field)
SpecVary == InitVary /\ [][NextVary]_vars

-----------------------------------------------------------------------------
(* Response.Download and Response.SendFile (response.go).  A call is       *)
(* followed by its log: the file system calls, the header sets, the        *)
(* ServeContent call and the callback calls, in the order they are made.   *)

Dot == "."

\* what the file system holds at filePath
FileKinds == {"missing", "dir", "file", "noaccess"}

\* var defaultDownloadOptions
defaultDownloadOptions ==
    [Dotfiles |-> "ignore", CacheControl |-> TRUE, LastModified |-> FALSE,
     AcceptRanges |-> TRUE]

\* the options argument: nil or a DownloadOption
NilOptions == [Dotfiles |-> "nil"]

Ev(ev, arg) == [ev |-> ev, arg |-> arg]

\* the header sets of SendFile, in the order of the code
sendFileHeaders(options) ==
    <<Ev("set", "Content-Type")>>
    \o (IF options.CacheControl THEN <<Ev("set", "Cache-Control")>>
        ELSE <<>>)
    \o (IF options.LastModified THEN <<Ev("set", "Last-Modified")>>
        ELSE <<>>)
    \o (IF options.AcceptRanges THEN <<Ev("set", "Accept-Ranges")>>
        ELSE <<>>)
    \o <<Ev("set", "Content-Disposition")>>

\* Response.SendFile: the log of the call.  A nil cb is replaced by a
\* function that prints the error.
SendFile(kind, opts, cb) ==
    LET options == IF opts = NilOptions THEN defaultDownloadOptions ELSE opts
        callback == IF cb = "nil" THEN "print" ELSE cb
    IN  IF kind = "missing"
        THEN <<Ev("stat", "error"), Ev(callback, "ErrNotExist")>>
        ELSE IF kind = "dir"
        THEN <<Ev("stat", "dir"), Ev(callback, "ErrDirPath")>>
        ELSE IF kind = "noaccess"
        THEN <<Ev("stat", "file"), Ev("open", "error"),
               Ev(callback, "ErrPermission")>>
        ELSE <<Ev("stat", "file"), Ev("open", "file")>>
               \o sendFileHeaders(options)
               \o <<Ev("ServeContent", "file"), Ev(callback, "nil"),
                    Ev("close", "file")>>

\* Response.Download: the log of the call.  Calling a nil cb panics.
Download(kind, filename, opts, cb) ==
    LET options == IF opts = NilOptions THEN defaultDownloadOptions ELSE opts
    IN  IF options.Dotfiles = "deny" /\ HasPrefix(filename, <<Dot>>)
        THEN IF cb = "nil" THEN <<Ev("panic", "nil func")>>
             ELSE <<Ev(cb, "ErrDotfilesDeny")>>
        ELSE SendFile(kind, options, cb)

\* the fileName arguments of the scenarios: .env, a.txt, docs/.env,
\* ./a.txt and the empty name
FileNames ==
    { <<Dot, "e", "n", "v">>, <<"a", Dot, "t", "x", "t">>,
      <<"d", "o", "c", "s", Slash, Dot, "e", "n", "v">>,
      <<Dot, Slash, "a", Dot, "t", "x", "t">>, <<>> }

\* the options arguments of the scenarios
DownloadOptions ==
    {NilOptions} \cup
    [Dotfiles : {"deny", "ignore"}, CacheControl : BOOLEAN,
     LastModified : BOOLEAN, AcceptRanges : {FALSE}]

\* the Download calls of the scenarios
DownloadCalls ==
    [fn : {"Download"}, kind : FileKinds, filename : FileNames,
     options : DownloadOptions, cb : {"nil", "cb"}, done : {FALSE},
     log : {<<>>}]

\* a handler calls res.Download(filepath, filename, options, cb)
CallDownload ==
    /\ call.fn = "Download"
    /\ ~call.done
    /\ call' = [call EXCEPT !.done = TRUE,
                            !.log = Download(call.kind, call.filename,
                                             call.options, call.cb)]
    /\ UNCHANGED <<routes, heap, table, httpHandler, once, walk, reqs, hist,
                   lim>>

InitDownload == InitState(LimNone) /\ call \in DownloadCalls
NextDownload == CallDownload
SpecDownload == InitDownload /\ [][NextDownload]_vars

-----------------------------------------------------------------------------
(* Response.SignedCookie (response.go).  HMAC-SHA256 is not computed: its  *)
(* digest is a byte string that tells the key and the message apart, which *)
(* is what the construction is relied on for.  Base64 and the cookie       *)
(* sanitizing of net/http are computed character by character.             *)

MaxValueLen == 2     \* characters of a cookie value

\* the bytes of the characters the scenarios use
Byte ==
    [c \in {"a", "k", "s", Dot, ";", Space} |->
        CASE c = "a" -> 97 [] c = "k" -> 107 [] c = "s" -> 115
          [] c = Dot -> 46 [] c = ";" -> 59 [] c = Space -> 32]

\* []byte(s)
Bytes(s) == [i \in DOMAIN s |-> Byte[s[i]]]

\* hmac.New(sha256.New, key), Write(message), Sum(nil): a digest that is
\* different for different keys and messages
HmacSha256(key, message) == <<Len(key)>> \o Bytes(key) \o Bytes(message)

\* the alphabet of base64.StdEncoding
encodeStd ==
    <<
      "A", "B", "C", "D", "E", "F", "G", "H", "I", "J", "K", "L", "M",
      "N", "O", "P", "Q", "R", "S", "T", "U", "V", "W", "X", "Y", "Z",
      "a", "b", "c", "d", "e", "f", "g", "h", "i", "j", "k", "l", "m",
      "n", "o", "p", "q", "r", "s", "t", "u", "v", "w", "x", "y", "z",
      "0", "1", "2", "3", "4", "5", "6", "7", "8", "9", "+", "/" >>

RECURSIVE EncodeToString(_)
\* base64.StdEncoding.EncodeToString: three bytes to four characters, the
\* last group padded with "="
EncodeToString(b) ==
    IF Len(b) = 0 THEN <<>>
    ELSE IF Len(b) = 1
    THEN <<encodeStd[(b[1] \div 4) + 1], encodeStd[(b[1] % 4) * 16 + 1],
           "=", "=">>
    ELSE IF Len(b) = 2
    THEN <<encodeStd[(b[1] \div 4) + 1],
           encodeStd[(b[1] % 4) * 16 + (b[2] \div 16) + 1],
           encodeStd[(b[2] % 16) * 4 + 1], "=">>
    ELSE <<encodeStd[(b[1] \div 4) + 1],
           encodeStd[(b[1] % 4) * 16 + (b[2] \div 16) + 1],
           encodeStd[(b[2] % 16) * 4 + (b[3] \div 64) + 1],
           encodeStd[(b[3] % 64) + 1]>>
         \o EncodeToString(SubSeq(b, 4, Len(b)))

\* net/http validCookieValueByte
validCookieValueByte(c) == c \notin {";", "\"", "\\"}

\* net/http sanitizeCookieValue: the invalid bytes are dropped, a value
\* with a space or a comma is quoted
sanitizeCookieValue(v) ==
    LET kept == SelectSeq(v, validCookieValueByte)
    IN  IF kept # <<>> /\ \E i \in DOMAIN kept : kept[i] \in {Space, Comma}
        THEN <<"\"">> \o kept \o <<"\"">>
        ELSE kept

\* a mutant of SignedCookie: the value is written before the signature
SignedCookieValueFirst(value, secret) ==
    LET signature == HmacSha256(secret, value)
        encodedSignature == EncodeToString(signature)
        stored == value \o <<Dot>> \o encodedSignature
    IN  [Value |-> stored, header |-> sanitizeCookieValue(stored)]

\* Response.SignedCookie: the Value field of the cookie after the call and
\* the value in the Set-Cookie line http.SetCookie adds
SignedCookie(value, secret) ==
    LET signature == HmacSha256(secret, value)
        encodedSignature == EncodeToString(signature)
        stored == encodedSignature \o <<Dot>> \o value
    IN  [Value |-> stored, header |-> sanitizeCookieValue(stored)]

\* the cookie values and the secrets of the scenarios
CookieValues == SeqUpTo({"a", Dot, ";", Space}, MaxValueLen)
Secrets == {<<>>, <<"k">>, <<"s">>, <<"k", "s">>}

\* the SignedCookie calls of the scenarios
SignedCookieCalls ==
    [fn : {"SignedCookie"}, value : CookieValues, secret : Secrets,
     done : {FALSE}, Value : {<<>>}, header : {<<>>}]

\* a handler calls res.SignedCookie(cookie, secret)
CallSignedCookie ==
    /\ call.fn = "SignedCookie"
    /\ ~call.done
    /\ LET res == SignedCookie(call.value, call.secret)
       IN  call' = [call EXCEPT !.done = TRUE, !.Value = res.Value,
                                !.header = res.header]
    /\ UNCHANGED <<routes, heap, table, httpHandler, once, walk, reqs, hist,
                   lim>>

InitCookie == InitState(LimNone) /\ call \in SignedCookieCalls
NextCookie == CallSignedCookie
SpecCookie == InitCookie /\ [][NextCookie]_vars

-----------------------------------------------------------------------------
(* The settings map of the App (part_001, request.go) under concurrent     *)
(* use.  A goroutine's access to the map takes time: it starts and it      *)
(* ends.  An access that overlaps a write of another goroutine is a data   *)
(* race: the runtime may stop the program (fatal error: concurrent map     *)
(* read and map write), or the read gives the old or the new value.        *)

MaxSetters == 1      \* goroutines that call SetSetting while serving

\* func defaultSettings
defaultSettings ==
    [k \in {"x-powered-by", "env", "etag", "trust proxy", "subdomain offset"}
       |-> CASE k = "x-powered-by" -> <<"bool", TRUE>>
             [] k = "env" -> <<"string", "development">>
             [] k = "etag" -> <<"string", "weak">>
             [] k = "trust proxy" -> <<"bool", FALSE>>
             [] k = "subdomain offset" -> <<"int", 2>>]

\* the nil interface value
NilValue == <<"nil", "nil">>

\* m[key] of a map[string]interface{}
MapGet(m, key) == IF key \in DOMAIN m THEN m[key] ELSE NilValue

\* m[key] = value
MapSet(m, key, value) ==
    [k \in DOMAIN m \cup {key} |-> IF k = key THEN value ELSE m[k]]

\* the goroutines: the setters, the request being decorated, and a caller
\* of Settings() that uses the map it got
Setters == 1..MaxSetters
Decorator == MaxSetters + 1
MapUser == MaxSetters + 2

\* what the setters write
SetArgs == {<<"trust proxy", <<"bool", TRUE>>>>, <<"x", <<"int", 1>>>>}

\* the goroutines at the start: each setter with its arguments, the map
\* user reading or writing "env"
RaceCalls ==
    { [fn |-> "Race", settings |-> defaultSettings,
       settingsMutex |-> [w |-> 0, r |-> {}], fatal |-> FALSE,
       procs |-> [p \in 1..(MaxSetters + 2) |->
          [pc |-> "call", raced |-> FALSE, got |-> <<>>,
           key |-> IF p \in Setters THEN args[p][1]
                   ELSE IF p = Decorator THEN "subdomain offset" ELSE "env",
           value |-> IF p \in Setters THEN args[p][2]
                     ELSE <<"string", "production">>,
           write |-> IF p \in Setters THEN TRUE
                     ELSE IF p = Decorator THEN FALSE ELSE uw]]] :
        args \in [Setters -> SetArgs], uw \in BOOLEAN }

\* the goroutines whose access to the map is under way
Accessing(c) ==
    {p \in DOMAIN c.procs : c.procs[p].pc \in {"reading", "writing"}}
Writing(c) == {p \in DOMAIN c.procs : c.procs[p].pc = "writing"}

\* a step of goroutine p that changes the call record to c
RaceStep(p, c) ==
    /\ call.fn = "Race"
    /\ ~call.fatal
    /\ call' = c
    /\ UNCHANGED <<routes, heap, table, httpHandler, once, walk, reqs, hist,
                   lim>>

\* SetSetting: a.settingsMutex.Lock()
Lock(p) ==
    /\ call.fn = "Race" /\ p \in Setters
    /\ call.procs[p].pc = "call"
    /\ call.settingsMutex.w = 0 /\ call.settingsMutex.r = {}
    /\ RaceStep(p, [call EXCEPT !.settingsMutex.w = p,
                                !.procs[p].pc = "locked"])

\* SetSetting: defer a.settingsMutex.Unlock()
Unlock(p) ==
    /\ call.fn = "Race" /\ p \in Setters
    /\ call.procs[p].pc = "wrote"
    /\ RaceStep(p, [call EXCEPT !.settingsMutex.w = 0,
                                !.procs[p].pc = "done"])

\* Settings(): RLock, return a.settings, RUnlock; the caller has the map
GetSettings(p) ==
    /\ call.fn = "Race" /\ p = MapUser
    /\ call.procs[p].pc = "call"
    /\ call.settingsMutex.w = 0
    /\ RaceStep(p, [call EXCEPT !.procs[p].pc = "has map"])

\* a.settings[key] = value begins: in SetSetting under the lock, or by the
\* caller of Settings() on the map it holds
StartWrite(p) ==
    /\ call.fn = "Race"
    /\ \/ p \in Setters /\ call.procs[p].pc = "locked"
       \/ p = MapUser /\ call.procs[p].pc = "has map" /\ call.procs[p].write
    /\ RaceStep(p, [call EXCEPT !.procs = [q \in DOMAIN @ |->
          IF q = p THEN [@[q] EXCEPT !.pc = "writing",
                                      !.raced = Accessing(call) # {}]
          ELSE IF q \in Accessing(call) THEN [@[q] EXCEPT !.raced = TRUE]
          ELSE @[q]]])

\* the write ends: the map holds the value, or the runtime stops the
\* program when the write was part of a race
EndWrite(p, fatal) ==
    /\ call.fn = "Race"
    /\ call.procs[p].pc = "writing"
    /\ fatal => call.procs[p].raced
    /\ RaceStep(p, [call EXCEPT
          !.fatal = fatal,
          !.settings = IF fatal THEN @
                       ELSE MapSet(@, call.procs[p].key, call.procs[p].value),
          !.procs[p].pc = IF p \in Setters THEN "wrote" ELSE "done"])

\* a read of a.settings[key] begins: newRequest reads "subdomain offset"
\* and then, in IsTrustProxyEnabled, "trust proxy", both without the lock;
\* the caller of Settings() reads the map it holds
StartRead(p) ==
    /\ call.fn = "Race"
    /\ \/ p = Decorator /\ call.procs[p].pc \in {"call", "offset read"}
       \/ p = MapUser /\ call.procs[p].pc = "has map" /\ ~call.procs[p].write
    /\ RaceStep(p, [call EXCEPT
          !.procs[p].key = IF p = Decorator /\ call.procs[p].pc = "offset read"
                           THEN "trust proxy" ELSE @,
          !.procs[p].got = MapGet(call.settings, IF p = Decorator
                                  /\ call.procs[p].pc = "offset read"
                                  THEN "trust proxy" ELSE call.procs[p].key),
          !.procs[p].pc = "reading",
          !.procs[p].raced = @ \/ Writing(call) # {}])

\* the read ends: with the value of the map; in a race with the value the
\* map had when the read began, or the runtime stops the program
EndRead(p, outcome) ==
    /\ call.fn = "Race"
    /\ call.procs[p].pc = "reading"
    /\ outcome # "now" => call.procs[p].raced
    /\ RaceStep(p, [call EXCEPT
          !.fatal = (outcome = "fatal"),
          !.procs[p].got = IF outcome = "now"
                           THEN MapGet(call.settings, call.procs[p].key)
                           ELSE @,
          !.procs[p].pc = IF p = Decorator
                             /\ call.procs[p].key = "subdomain offset"
                          THEN "offset read" ELSE "done"])

InitRace == InitState(LimNone) /\ call \in RaceCalls
NextRace ==
    \/ \E p \in Setters : Lock(p)
    \/ \E p \in Setters : Unlock(p)
    \/ GetSettings(MapUser)
    \/ \E p \in 1..(MaxSetters + 2) : StartWrite(p)
    \/ \E p \in 1..(MaxSetters + 2), fatal \in BOOLEAN : EndWrite(p, fatal)
    \/ \E p \in 1..(MaxSetters + 2) : StartRead(p)
    \/ \E p \in 1..(MaxSetters + 2), outcome \in {"now", "then", "fatal"} :
           EndRead(p, outcome)
SpecRace == InitRace /\ [][NextRace]_vars

-----------------------------------------------------------------------------
(* SetSetting, GetSetting, IsSettingEnabled, IsSettingDisabled (part_001)  *)
(* called one after the other.                                             *)

MaxSets == 3         \* SetSetting calls on one App

\* GetSetting(key) on the settings map m
GetSetting(m, key) == MapGet(m, key)

\* value, ok := a.settings[key].(bool)
AssertBool(v) ==
    IF v[1] = "bool" THEN [value |-> v[2], ok |-> TRUE]
    ELSE [value |-> FALSE, ok |-> FALSE]

\* IsSettingEnabled(key)
IsSettingEnabled(m, key) ==
    AssertBool(MapGet(m, key)).ok /\ AssertBool(MapGet(m, key)).value

\* a mutant of IsSettingDisabled: ok is not looked at
IsSettingDisabledNoOk(m, key) == ~AssertBool(MapGet(m, key)).value

\* IsSettingDisabled(key)
IsSettingDisabled(m, key) ==
    AssertBool(MapGet(m, key)).ok /\ ~AssertBool(MapGet(m, key)).value

\* the keys and the values of the scenarios; "never" is never set
SettingKeys == {"trust proxy", "env", "someBool", "test"}
SettingValues ==
    {<<"bool", TRUE>>, <<"bool", FALSE>>, <<"string", "test">>, NilValue}

\* a fresh App; last is the history of the SetSetting calls, by key
SettingsCalls ==
    { [fn |-> "Settings", settings |-> defaultSettings,
       last |-> [k \in {} |-> NilValue], n |-> 0] }

\* app.SetSetting(key, value)
CallSetSetting(key, value) ==
    /\ call.fn = "Settings"
    /\ call.n < MaxSets
    /\ call' = [call EXCEPT !.settings = MapSet(@, key, value),
                            !.last = MapSet(@, key, value),
                            !.n = @ + 1]
    /\ UNCHANGED <<routes, heap, table, httpHandler, once, walk, reqs, hist,
                   lim>>

InitSettings == InitState(LimNone) /\ call \in SettingsCalls
NextSettings ==
    \E key \in SettingKeys, value \in SettingValues :
        CallSetSetting(key, value)
SpecSettings == InitSettings /\ [][NextSettings]_vars

-----------------------------------------------------------------------------
(* newRequest (request.go): the Ips list of two requests of one App.       *)

MaxTokens == 2       \* addresses in the X-Forwarded-For header

\* parseXForwardedFor
parseXForwardedFor(header) ==
    LET parts == Split(header, Comma)
    IN  [i \in DOMAIN parts |-> TrimSpace(parts[i])]

\* a mutant of newRequestIps: the setting is not looked at
newRequestIpsAlways(m, header) ==
    [out |-> "ok", Ips |-> parseXForwardedFor(header)]

\* newRequest, as far as Ips goes: []string{}, and the parsed header when
\* app.IsTrustProxyEnabled(); the assertion a.settings["trust proxy"].(bool)
\* panics on a value that is no bool
newRequestIps(m, header) ==
    IF MapGet(m, "trust proxy")[1] # "bool"
    THEN [out |-> "panic", Ips |-> <<>>]
    ELSE IF MapGet(m, "trust proxy")[2]
    THEN [out |-> "ok", Ips |-> parseXForwardedFor(header)]
    ELSE [out |-> "ok", Ips |-> <<>>]

\* an address as it stands in the header: with or without spaces around it
Padded(item) ==
    IF item.pad THEN <<Space>> \o item.token \o <<Space>> ELSE item.token

\* the addresses of the scenarios (one may be empty) and how they are
\* written
HeaderItems == [token : {<<"1">>, <<"2", Dot, "3">>, <<>>}, pad : BOOLEAN]

\* the header made of the items
HeaderOf(items) == JoinComma([i \in DOMAIN items |-> Padded(items[i])])

\* two requests of one App: the first with one address or more, the second
\* with one; the App with trust proxy false, true or a number
DecorateCalls ==
    { [fn |-> "Decorate",
       settings |-> MapSet(defaultSettings, "trust proxy", tp),
       items |-> <<a, b>>,
       header |-> <<HeaderOf(a), HeaderOf(b)>>,
       out |-> <<"", "">>, Ips |-> << <<>>, <<>> >>] :
        tp \in {<<"bool", FALSE>>, <<"bool", TRUE>>, <<"int", 1>>},
        a \in SeqUpTo(HeaderItems, MaxTokens) \ {<<>>},
        b \in [1..1 -> HeaderItems] }

\* request i is decorated
Decorate(i) ==
    /\ call.fn = "Decorate"
    /\ call.out[i] = ""
    /\ LET res == newRequestIps(call.settings, call.header[i])
       IN  call' = [call EXCEPT !.out[i] = res.out, !.Ips[i] = res.Ips]
    /\ UNCHANGED <<routes, heap, table, httpHandler, once, walk, reqs, hist,
                   lim>>

InitDecorate == InitState(LimNone) /\ call \in DecorateCalls
NextDecorate == \E i \in 1..2 : Decorate(i)
SpecDecorate == InitDecorate /\ [][NextDecorate]_vars

-----------------------------------------------------------------------------
(* Claims.                                                                 *)

RECURSIVE OwnMiddleware(_)
\* the own middleware of the nodes of a path from the root down, joined
OwnMiddleware(ns) ==
    IF Len(ns) = 0 THEN <<>>
    ELSE Cells(heap, routes[ns[1]].middleware) \o OwnMiddleware(Tail(ns))

\* C2: the effective middleware memoized for a node is the own middleware
\* of its ancestors, root first, followed by its own, at every point during
\* and after the walk (no Use call is made after the walk here)
C2_EffectiveMiddleware ==
    \A n \in Nodes :
        routes[n].cachedMiddleware.arr # NilArr =>
            Cells(heap, routes[n].cachedMiddleware)
                = OwnMiddleware(Ancestors(routes, n))

RECURSIVE PreMiddleware(_)
\* the same of the middleware the walk started from
PreMiddleware(ns) ==
    IF Len(ns) = 0 THEN <<>>
    ELSE hist.pre[ns[1]].mw \o PreMiddleware(Tail(ns))

\* the entries registered before the walk
PreEntries ==
    UNION {{<<n, i>> : i \in 1..hist.pre[n].np} : n \in DOMAIN hist.pre}

\* [ancestors' middleware root first..., own middleware..., handlers...]
ExpectedChain(n, i) ==
    PreMiddleware(Ancestors(routes, n)) \o routes[n].paths[i].handlers

\* no param handler of the entry's node is registered for a wildcard of
\* the entry's path
NoParamMatches(n, i) ==
    \A k \in DOMAIN Segs(routes[n].paths[i].name) :
        LET seg == Segs(routes[n].paths[i].name)[k] IN
        IsWild(seg) => Tail(seg) \notin DOMAIN routes[n].paramHandlers

\* C1: a finished request with exactly the method and path of an entry
\* registered before the walk, in which no param handler matches and every
\* invoked handler calls next, has invoked exactly the ancestors'
\* middleware root first, the node's middleware and the entry's handlers,
\* in that order (stated for the walks that end without a panic)
C1_DispatchOrder ==
    \A r \in DOMAIN reqs : \A e \in PreEntries :
        LET entry == routes[e[1]].paths[e[2]] IN
        (/\ reqs[r].pc = "done"
         /\ ~hist.panicked
         /\ entry.method = reqs[r].method
         /\ entry.name = reqs[r].path
         /\ NoParamMatches(e[1], e[2])
         /\ reqs[r].allNext)
        => reqs[r].invoked = ExpectedChain(e[1], e[2])

C4_StopEndsChain ==
    \A r \in DOMAIN reqs : ~reqs[r].afterStop

\* C4: a next call on a chain that is not empty removes the head from the
\* chain and then invokes it; once an invoked handler has returned without
\* calling next, no later handler is invoked and no 404 is emitted as long
\* as no handler calls next a second time
C4_PopThenInvoke ==
    [][\A r \in DOMAIN reqs :
          next(r)
          => /\ reqs[r].handlers.len > 0
                => /\ Cells(heap', reqs'[r].handlers)
                        = Tail(Cells(heap, reqs[r].handlers))
                   /\ reqs'[r].invoked
                        = Append(reqs[r].invoked,
                                 Cells(heap, reqs[r].handlers)[1])
                   /\ reqs'[r].stack[Len(reqs'[r].stack)].h
                        = Cells(heap, reqs[r].handlers)[1]
             /\ reqs[r].stopped => (reqs[r].again \/ Frame(r).made > 0)]_vars

\* a handler returned without calling next while handlers were left, and
\* the chain went no further
C4_Witness ==
    \E r \in DOMAIN reqs :
        /\ reqs[r].pc = "done"
        /\ reqs[r].stopped
        /\ ~reqs[r].afterStop
        /\ reqs[r].notFound = 0
        /\ Len(reqs[r].invoked) > 1
        /\ Len(reqs[r].invoked) < Len(reqs[r].full)

\* C5: under any interleaving of ServeHTTP calls the walk is started once at
\* most, every call that has left once.Do has left it after that one walk,
\* and the entries handed to the path matcher change no more once once.Do
\* is over
C5_WalkOnce ==
    /\ [](/\ hist.walks <= 1
          /\ \A r \in DOMAIN reqs :
                reqs[r].pc \in {"serve", "chain", "done"} => hist.walks = 1)
    /\ [][once.done => table' = table]_vars

\* a call that passed the fast path of once.Do before the walk was over
\* waits at the lock while the walk has finished
C5_Witness ==
    /\ Len(reqs) >= 2
    /\ \E r \in DOMAIN reqs : reqs[r].pc = "lock"
    /\ once.done
    /\ hist.walks = 1
    /\ Len(table) > 0

\* C6: no request is handed to the placeholder handler, and every request
\* handed to the router meets all the entries registered before the walk
C6_RoutedAfterWalk ==
    \A r \in DOMAIN reqs :
        /\ reqs[r].via # "placeholder"
        /\ reqs[r].via = "router" => reqs[r].seen = Cardinality(PreEntries)

\* the handlers of request r that follow its param closures
AfterParams(r) ==
    SubSeq(reqs[r].full,
           Len(reqs[r].full) - Len(hist.walked[reqs[r].entry].chain) + 1,
           Len(reqs[r].full))

\* C7: the handler sequence of an entry stays what the walk combined, each
\* request's chain starts from all of it, after the request's param
\* closures, and a request invokes the handlers of its own chain in order,
\* whatever the other requests do
C7_ChainPerRequest ==
    /\ \A e \in DOMAIN table :
          Cells(heap, table[e].handlers) = hist.walked[e].chain
    /\ \A r \in DOMAIN reqs :
          reqs[r].entry > 0 =>
             /\ Len(reqs[r].full) >= Len(hist.walked[reqs[r].entry].chain)
             /\ AfterParams(r) = hist.walked[reqs[r].entry].chain
             /\ reqs[r].invoked
                  = SubSeq(reqs[r].full, 1, Len(reqs[r].invoked))
             /\ reqs[r].pc = "chain" =>
                   reqs[r].invoked \o Cells(heap, reqs[r].handlers)
                     = reqs[r].full

\* two requests run the same entry at the same time: one has gone through
\* its chain, the other has not started
C7_Witness ==
    \E r1, r2 \in DOMAIN reqs :
        /\ r1 # r2
        /\ reqs[r1].entry > 0
        /\ reqs[r1].entry = reqs[r2].entry
        /\ reqs[r1].pc = "chain" /\ reqs[r2].pc = "chain"
        /\ Len(reqs[r1].full) >= 2
        /\ reqs[r1].invoked = reqs[r1].full
        /\ reqs[r2].invoked = <<>>

\* C8: a request routed after a Use call made after the walk runs, for the
\* entry it matches, the middleware its node and the node's ancestors had
\* before the walk and the entry's handlers, and the entries in the matcher
\* keep that sequence
C8_LateUseNoEffect ==
    /\ \A e \in DOMAIN table :
          Cells(heap, table[e].handlers)
            = ExpectedChain(table[e].node, table[e].idx)
    /\ \A r \in DOMAIN reqs :
          (reqs[r].entry > 0 /\ reqs[r].lateUse) =>
             /\ reqs[r].full
                  = ExpectedChain(table[reqs[r].entry].node,
                                  table[reqs[r].entry].idx)
             /\ reqs[r].invoked
                  = SubSeq(reqs[r].full, 1, Len(reqs[r].invoked))

\* a request routed after a late Use on the node of its entry or on an
\* ancestor has run its whole chain
C8_Witness ==
    \E r \in DOMAIN reqs :
        /\ reqs[r].entry > 0
        /\ reqs[r].lateUse
        /\ reqs[r].pc = "done"
        /\ reqs[r].invoked = reqs[r].full
        /\ Len(reqs[r].full) >= 2
        /\ \E n \in DOMAIN Ancestors(routes, table[reqs[r].entry].node) :
              LET a == Ancestors(routes, table[reqs[r].entry].node)[n] IN
              Len(Cells(heap, routes[a].middleware)) > Len(hist.pre[a].mw)

\* the parameters of the path request r matched, in path order
MatchedParams(r) ==
    ParamsOf(Segs(table[reqs[r].entry].name), Segs(reqs[r].path))

RECURSIVE OwnValueClosures(_, _)
\* for each parameter that has a param handler, in path order, the handler
\* given the value of that parameter
OwnValueClosures(params, handlers) ==
    IF Len(params) = 0 THEN <<>>
    ELSE (IF params[1].Key \in DOMAIN handlers
          THEN <<[handlers[params[1].Key] EXCEPT !.v = params[1].Value]>>
          ELSE <<>>) \o OwnValueClosures(Tail(params), handlers)

\* C9: the chain of a request starts with the param handlers of the
\* parameters its path has, in path order, each given the value of its own
\* parameter, followed by the entry's middleware and handlers; the request
\* invokes them in that order, each once at most
C9_ParamHandlersFirst ==
    \A r \in DOMAIN reqs :
        reqs[r].entry > 0 =>
            /\ reqs[r].full
                 = OwnValueClosures(MatchedParams(r),
                       routes[table[reqs[r].entry].node].paramHandlers)
                     \o hist.walked[reqs[r].entry].chain
            /\ reqs[r].invoked = SubSeq(reqs[r].full, 1, Len(reqs[r].invoked))

\* C10: a request that matches an entry whose path has a parameter the root
\* has a param handler for, on whatever node the entry was registered, has
\* that param handler in its chain
C10_RootParamEverywhere ==
    \A r \in DOMAIN reqs :
        reqs[r].entry > 0 =>
            \A k \in DOMAIN MatchedParams(r) :
                MatchedParams(r)[k].Key \in DOMAIN routes[Root].paramHandlers
                => \E j \in DOMAIN reqs[r].full :
                      /\ reqs[r].full[j].k = "ph"
                      /\ reqs[r].full[j].n = Root
                      /\ reqs[r].full[j].i
                           = routes[Root].paramHandlers[
                                 MatchedParams(r)[k].Key].i

\* C11: a child router stays in its parent's children table under its
\* combined path: a later NewRouter call with the same combined path does
\* not take its place
C11_SiblingKept ==
    \A n \in Nodes \ {Root} :
        /\ routes[n].base \in DOMAIN routes[routes[n].parent].children
        /\ routes[routes[n].parent].children[routes[n].base] = n

\* C12: an entry with a malformed absolute path is refused by the
\* registration call, so no request's walk ends in the panic of the path
\* matcher with such an entry in the tree
C12_MalformedPathFailsFast ==
    \A r \in DOMAIN reqs :
        reqs[r].out = "panic" =>
            \A e \in PreEntries : ~BadPath(routes[e[1]].paths[e[2]].name)

\* the entries an All call left in r.paths
AllEntries(a) ==
    [i \in 1..7 |-> routes[a.node].paths[a.from + i - 1]]

\* C13: an All call adds seven entries to the node, one for each of GET,
\* POST, PUT, DELETE, PATCH, OPTIONS and HEAD, all with the absolute path
\* of the call and its handlers, and a request routed to that path with any
\* of these methods has the node's middleware and these handlers as its
\* chain; a Get/Post/Put/Delete/Patch/Options/Head call adds one entry, for
\* its own method
C13_AllSevenMethods ==
    /\ [](\A a \in hist.all :
            /\ Len(routes[a.node].paths) >= a.from + 6
            /\ {AllEntries(a)[i].method : i \in 1..7}
                 = {"GET", "POST", "PUT", "DELETE", "PATCH", "OPTIONS",
                    "HEAD"}
            /\ \A i \in 1..7 :
                  /\ AllEntries(a)[i].name
                       = getFullPath(routes[a.node], a.path)
                  /\ AllEntries(a)[i].handlers = a.handlers
            /\ \A r \in DOMAIN reqs :
                  (/\ reqs[r].entry > 0
                   /\ reqs[r].path = getFullPath(routes[a.node], a.path))
                  => reqs[r].full
                       = PreMiddleware(Ancestors(routes, a.node))
                           \o a.handlers)
    /\ [][\A n \in Nodes, m \in lim.methods, p \in lim.epaths, c \in lim.eh :
             SetupHandle(n, m, p, c)
             => /\ Len(routes'[n].paths) = Len(routes[n].paths) + 1
                /\ SubSeq(routes'[n].paths, 1, Len(routes[n].paths))
                     = routes[n].paths
                /\ routes'[n].paths[Len(routes'[n].paths)].method = m
                /\ \A o \in Nodes \ {n} :
                      routes'[o].paths = routes[o].paths]_vars

\* two requests with different methods, HEAD among them, to the path of an
\* All call have run the same chain to its end
C13_Witness ==
    \E a \in hist.all : \E r1, r2 \in DOMAIN reqs :
        /\ reqs[r1].method = "HEAD"
        /\ reqs[r2].method = "PUT"
        /\ reqs[r1].path = getFullPath(routes[a.node], a.path)
        /\ reqs[r2].path = reqs[r1].path
        /\ reqs[r1].pc = "done" /\ reqs[r2].pc = "done"
        /\ Len(reqs[r1].invoked) >= 2
        /\ reqs[r1].invoked = reqs[r1].full
        /\ reqs[r2].invoked = reqs[r1].invoked

\* the status code the first call on a response commits
FirstCode(op) ==
    IF op[1] \in {"Status", "SendStatus"} THEN op[2]
    ELSE IF op[1] = "Send" THEN 200
    ELSE IF op[1] = "JSON" THEN (IF op[2] THEN 200 ELSE 500)
    ELSE IF op[1] = "Redirect"
         THEN (IF op[2] = <<>> THEN 302 ELSE op[2][1])
    ELSE 404

\* C14: the first call that writes a header or a body commits the status
\* code of a response (200 for a body written with no status); whatever is
\* called after that, the recorded code stays and WriteHeader of the
\* underlying writer is not invoked again: it is invoked once at most for
\* one response, also by one Status call
C14_StatusWriteOnce ==
    /\ [](\A r \in DOMAIN reqs :
            reqs[r].entry > 0 =>
               /\ Len(reqs[r].w.calls) <= 1
               /\ reqs[r].first # <<>> =>
                     /\ reqs[r].ww.statusCodeWritten
                     /\ reqs[r].ww.statusCode = FirstCode(reqs[r].first)
                     /\ reqs[r].w.calls = <<FirstCode(reqs[r].first)>>
                     /\ reqs[r].w.status = FirstCode(reqs[r].first))
    /\ [][\A r \in DOMAIN reqs :
             reqs[r].ww.statusCodeWritten =>
                /\ reqs'[r].ww = reqs[r].ww
                /\ reqs'[r].w.calls = reqs[r].w.calls
                /\ reqs'[r].w.status = reqs[r].w.status]_vars

\* a response committed by Send keeps 200 through two more calls, the
\* writer written to three times at least
C14_Witness ==
    \E r \in DOMAIN reqs :
        /\ reqs[r].first = <<"Send", TRUE>>
        /\ reqs[r].ops = 3
        /\ reqs[r].w.body >= 3
        /\ reqs[r].ww.statusCode = 200
        /\ reqs[r].w.calls = <<200>>

\* C15: what a handler reads with StatusCode() after its next call has
\* returned is the status code the response was committed with, by
\* whichever handler of the request committed it
C15_OuterSeesInnerStatus ==
    \A r \in DOMAIN reqs :
        \A k \in DOMAIN reqs[r].read :
            reqs[r].read[k].code = reqs[r].read[k].sent

\* a middleware reads 401 after next: the route handler called Status(401)
C15_Witness ==
    \E r \in DOMAIN reqs :
        \E k \in DOMAIN reqs[r].read :
            /\ reqs[r].read[k].by.k = "mw"
            /\ reqs[r].read[k].committer.k = "h"
            /\ reqs[r].read[k].code = 401
            /\ reqs[r].first = <<"Status", 401>>

\* a non-empty string of decimal digits
IsNat(s) == s # <<>> /\ \A i \in 1..Len(s) : s[i] \in Range(Digits)

\* the places of a clause where it reads bound, dash, bound with each bound
\* a number or empty
DashCuts(c) ==
    { i \in 1..Len(c) :
        /\ c[i] = Dash
        /\ SubSeq(c, 1, i-1) = <<>> \/ IsNat(SubSeq(c, 1, i-1))
        /\ SubSeq(c, i+1, Len(c)) = <<>> \/ IsNat(SubSeq(c, i+1, Len(c))) }

\* a clause of one of the forms a-b, a- and -n
WellFormedClause(c) == DashCuts(c) # {} /\ Len(c) > 1

\* the range a well-formed clause stands for
ClauseRange(c, size) ==
    LET i == CHOOSE k \in DashCuts(c) : TRUE
        a == SubSeq(c, 1, i-1)
        b == SubSeq(c, i+1, Len(c))
    IN  IF a = <<>> THEN [Start |-> size - Atoi(b), End |-> size - 1]
        ELSE IF b = <<>> THEN [Start |-> Atoi(a), End |-> size - 1]
        ELSE [Start |-> Atoi(a), End |-> Atoi(b)]

\* the header of the call is bytes= and one well-formed clause or more
WellFormedHeader ==
    /\ call.unit = BytesEq
    /\ call.clauses # <<>>
    /\ \A k \in DOMAIN call.clauses : WellFormedClause(call.clauses[k])

\* the satisfiable ranges of a well-formed header, in header order
SatisfiableRanges ==
    LET all == [k \in DOMAIN call.clauses |->
                   ClauseRange(call.clauses[k], call.size)]
    IN  SelectSeq(all, LAMBDA g : 0 <= g.Start /\ g.Start <= g.End
                                    /\ g.End < call.size)

InvalidFormatErrors ==
    {"invalid range specifier", "invalid range format",
     "invalid range start value", "invalid range end value"}

\* a clause that has text but no dash, or a dash with neither bound, or a
\* bound that is not a string of digits (a sign makes it one)
MalformedClause(c) ==
    /\ c # <<>>
    /\ \A i \in 1..Len(c) : c[i] # Space
    /\ ~WellFormedClause(c)

\* the header of the call has another unit than bytes, or a malformed clause
MalformedHeader ==
    /\ call.header # <<>>
    /\ \/ call.unit # BytesEq
       \/ \E k \in DOMAIN call.clauses : MalformedClause(call.clauses[k])

\* C18: Range fails with an invalid-format error when the header does not
\* start with bytes=, when a clause has no dash, or when a required bound is
\* not a non-negative integer (neither bound given, a negative bound); it
\* fails with the unsatisfiable-range error exactly when the header is well
\* formed and no range is satisfiable; without a header it returns no range
\* and no error.
C18_ErrorKinds ==
    (call.fn = "Range" /\ call.done) =>
        /\ call.header = <<>> => (call.ranges = <<>> /\ call.err = "")
        /\ MalformedHeader => call.err \in InvalidFormatErrors
        /\ WellFormedHeader =>
               (call.err = "no satisfiable range found"
                    <=> SatisfiableRanges = <<>>)
        /\ call.err = "no satisfiable range found" => ~MalformedHeader

RECURSIVE Distinct(_)
\* a sequence without the later copies of its elements
Distinct(q) ==
    IF q = <<>> THEN <<>>
    ELSE LET init == SubSeq(q, 1, Len(q) - 1)
         IN  IF \E i \in DOMAIN init : init[i] = q[Len(q)]
             THEN Distinct(init)
             ELSE Append(Distinct(init), q[Len(q)])

RECURSIVE JoinCommaSpace(_)
\* the elements of a sequence of strings with ", " between them
JoinCommaSpace(q) ==
    IF Len(q) = 0 THEN <<>>
    ELSE IF Len(q) = 1 THEN q[1]
    ELSE q[1] \o <<Comma, Space>> \o JoinCommaSpace(Tail(q))

\* the fields a Vary header lists
Listed(header) ==
    LET fields == Split(header, Comma)
    IN  [k \in DOMAIN fields |-> TrimSpace(fields[k])]

\* C19: after Vary calls with non-empty field names the Vary header lists
\* each distinct field once, in first-call order, joined by ", "; once the
\* header was "*" or Vary("*") was called the header is exactly "*".
C19_VaryDistinctOnce ==
    (call.fn = "Vary" /\ \A k \in DOMAIN call.fields : call.fields[k] # <<>>)
    =>  IF call.before = Star \/ \E k \in DOMAIN call.fields :
                                      call.fields[k] = Star
        THEN call.header = Star
        ELSE /\ call.header = JoinCommaSpace(Distinct(call.fields))
             /\ \A i, j \in DOMAIN Listed(call.header) :
                    Listed(call.header)[i] = Listed(call.header)[j] => i = j

\* the final path segment of a file name
LastSegment(name) == LET segs == Split(name, Slash) IN segs[Len(segs)]

\* C20: Download with Dotfiles "deny" and a file name whose final path
\* segment starts with "." passes ErrDotfilesDeny to the callback and
\* returns: no stat, no open, no header set, no body written.
C20_DotfileDeniedFirst ==
    (/\ call.fn = "Download" /\ call.done
     /\ call.options.Dotfiles = "deny"
     /\ call.cb # "nil"
     /\ HasPrefix(LastSegment(call.filename), <<Dot>>))
    => call.log = <<Ev(call.cb, "ErrDotfilesDeny")>>

\* the places of the log where the completion callback is called
CallbackAt(log) == {i \in DOMAIN log : log[i].ev \in {"cb", "print"}}

\* the places of the log where the response is touched
ResponseAt(log) == {i \in DOMAIN log : log[i].ev \in {"set", "ServeContent"}}

\* C21: every Download call invokes the completion callback exactly once
\* before it returns and never panics, also with a nil callback; the
\* callback gets ErrDotfilesDeny, the stat error, ErrDirPath or the open
\* error on the respective failure, and nil only after the file was served;
\* on a failure no header is set and nothing is written.
C21_CallbackExactlyOnce ==
    (call.fn = "Download" /\ call.done) =>
        /\ \A i \in DOMAIN call.log : call.log[i].ev # "panic"
        /\ Cardinality(CallbackAt(call.log)) = 1
        /\ \A i \in CallbackAt(call.log) :
               /\ call.log[i].arg = "nil" =>
                      \E j \in 1..(i-1) : call.log[j].ev = "ServeContent"
               /\ call.log[i].arg # "nil" => ResponseAt(call.log) = {}
               /\ call.log[i].arg = "ErrNotExist" => call.kind = "missing"
               /\ call.log[i].arg = "ErrDirPath" => call.kind = "dir"
               /\ call.log[i].arg = "ErrPermission" => call.kind = "noaccess"
               /\ call.log[i].arg = "ErrDotfilesDeny" =>
                      /\ call.options.Dotfiles = "deny"
                      /\ Len(call.log) = 1

\* the value of a character of the base64 alphabet
DecodeChar(c) == (CHOOSE i \in DOMAIN encodeStd : encodeStd[i] = c) - 1

RECURSIVE DecodeString(_)
\* base64.StdEncoding.DecodeString of a padded encoding
DecodeString(e) ==
    IF Len(e) < 4 THEN <<>>
    ELSE LET c1 == DecodeChar(e[1])
             c2 == DecodeChar(e[2])
         IN  IF e[3] = "=" THEN <<c1 * 4 + (c2 \div 16)>>
             ELSE IF e[4] = "="
             THEN <<c1 * 4 + (c2 \div 16),
                    (c2 % 16) * 16 + (DecodeChar(e[3]) \div 4)>>
             ELSE <<c1 * 4 + (c2 \div 16),
                    (c2 % 16) * 16 + (DecodeChar(e[3]) \div 4),
                    (DecodeChar(e[3]) % 4) * 64 + DecodeChar(e[4])>>
                  \o DecodeString(SubSeq(e, 5, Len(e)))

ContentType(rq, t) ==
    IF "Content-Type" \in DOMAIN rq[t].w.Header
    THEN rq[t].w.Header["Content-Type"] ELSE ""

\* C23: Send with a string sets Content-Type to text/plain only if none is
\* set on the response yet, a Content-Type set before with Set or Type is
\* left as it is; Send with bytes writes them and neither sets nor changes
\* Content-Type.
C23_SendKeepsContentType ==
    [][\A r \in DOMAIN reqs, ok \in BOOLEAN :
          /\ Respond(r, <<"Send", ok>>) =>
                 LET t == Frame(r).rw.ww
                 IN  ContentType(reqs', t) =
                         IF ContentType(reqs, t) = ""
                         THEN "text/plain; charset=utf-8"
                         ELSE ContentType(reqs, t)
          /\ Respond(r, <<"SendBytes", ok>>) =>
                 LET t == Frame(r).rw.ww
                 IN  /\ ContentType(reqs', t) = ContentType(reqs, t)
                     /\ reqs'[t].w.body > reqs[t].w.body]_vars

\* C24: while requests are served every read and write of the settings map
\* is made holding the settings lock, so a SetSetting that runs beside
\* request decoration or beside a user of the map Settings() returned never
\* makes an unsynchronized concurrent access to the map.
C24_SettingsUnderLock ==
    call.fn = "Race" =>
        /\ \A p \in Accessing(call) :
               call.settingsMutex.w = p \/ p \in call.settingsMutex.r
        /\ \A p \in DOMAIN call.procs : ~call.procs[p].raced
        /\ ~call.fatal

\* the five default settings, as the claim lists them
FiveDefaults ==
    [k \in {"x-powered-by", "env", "etag", "trust proxy", "subdomain offset"}
       |-> IF k = "x-powered-by" THEN <<"bool", TRUE>>
           ELSE IF k = "env" THEN <<"string", "development">>
           ELSE IF k = "etag" THEN <<"string", "weak">>
           ELSE IF k = "trust proxy" THEN <<"bool", FALSE>>
           ELSE <<"int", 2>>]

\* the value the claim gives key k after the SetSetting calls so far
CurrentValue(k) ==
    IF k \in DOMAIN call.last THEN call.last[k]
    ELSE IF k \in DOMAIN FiveDefaults THEN FiveDefaults[k]
    ELSE NilValue

\* C25: a fresh App holds exactly the five default settings; after any
\* SetSetting calls GetSetting(k) is the value of the latest SetSetting of
\* k, the default if k was never set, nil if it has none; IsSettingEnabled
\* holds exactly when that value is the boolean true, IsSettingDisabled
\* exactly when it is the boolean false.
C25_SettingsLastWrite ==
    call.fn = "Settings" =>
        /\ call.n = 0 => call.settings = FiveDefaults
        /\ \A k \in SettingKeys \cup DOMAIN FiveDefaults \cup {"never"} :
               /\ GetSetting(call.settings, k) = CurrentValue(k)
               /\ IsSettingEnabled(call.settings, k)
                      <=> CurrentValue(k) = <<"bool", TRUE>>
               /\ IsSettingDisabled(call.settings, k)
                      <=> CurrentValue(k) = <<"bool", FALSE>>
               /\ ~(IsSettingEnabled(call.settings, k)
                      /\ IsSettingDisabled(call.settings, k))

\* after the last SetSetting call: a default replaced by a value that is
\* no boolean, a new key set to false, and a key without a value
C25_Witness ==
    /\ call.fn = "Settings"
    /\ call.n = MaxSets
    /\ GetSetting(call.settings, "trust proxy") = <<"string", "test">>
    /\ GetSetting(call.settings, "someBool") = <<"bool", FALSE>>
    /\ ~IsSettingDisabled(call.settings, "trust proxy")
    /\ IsSettingDisabled(call.settings, "someBool")
    /\ GetSetting(call.settings, "test") = NilValue

\* C26: with trust proxy disabled two requests that differ only in their
\* X-Forwarded-For header get the same, empty Ips list; with trust proxy
\* enabled Ips is the addresses of the header between the commas, each
\* without the spaces around it, in header order.
C26_IpsOnlyWhenTrusted ==
    call.fn = "Decorate" =>
        /\ MapGet(call.settings, "trust proxy") = <<"bool", FALSE>> =>
               /\ \A i \in 1..2 : call.out[i] # "" =>
                      call.out[i] = "ok" /\ call.Ips[i] = <<>>
               /\ (call.out[1] # "" /\ call.out[2] # "") =>
                      call.Ips[1] = call.Ips[2]
        /\ MapGet(call.settings, "trust proxy") = <<"bool", TRUE>> =>
               \A i \in 1..2 : call.out[i] # "" =>
                   /\ call.out[i] = "ok"
                   /\ call.Ips[i] =
                          [k \in DOMAIN call.items[i] |->
                              call.items[i][k].token]

\* both requests are decorated, their headers differ; trust proxy is off
C26_Witness ==
    /\ call.fn = "Decorate"
    /\ MapGet(call.settings, "trust proxy") = <<"bool", FALSE>>
    /\ call.out = <<"ok", "ok">>
    /\ call.header[1] # call.header[2]
    /\ Len(call.items[1]) = 2

RECURSIVE ReachedFrom(_)
\* the nodes the children tables lead to from the nodes of S
ReachedFrom(S) ==
    LET T == S \cup UNION {Range(routes[n].children) : n \in S}
    IN  IF T = S THEN S ELSE ReachedFrom(T)

\* C27: every router NewRouter returned before the walk is reachable from
\* the root through the children tables, and once the walk is over every
\* entry registered before it, on the root or on such a router, is held by
\* the path matcher.
C27_NoEntryWithoutRoute ==
    /\ Setup => Nodes \subseteq ReachedFrom({Root})
    /\ (once.done /\ once.m = 0) =>
           \A e \in PreEntries :
               \E t \in DOMAIN table :
                   table[t].node = e[1] /\ table[t].idx = e[2]

\* the entries registered after the walk
LateEntrySet ==
    UNION {{<<n, i>> : i \in (hist.pre[n].np + 1)..Len(routes[n].paths)} :
           n \in DOMAIN hist.pre}

\* the requests for entry e: routed by the matcher after e was registered,
\* with the method and the path of e
RequestsFor(e) ==
    {r \in DOMAIN reqs :
        /\ reqs[r].pc = "done" /\ reqs[r].via = "router"
        /\ r > 1
        /\ reqs[r].method = routes[e[1]].paths[e[2]].method
        /\ reqs[r].path = routes[e[1]].paths[e[2]].name}

\* no handler of entry e was invoked
NeverRun(e) ==
    \A r \in DOMAIN reqs : \A k \in DOMAIN reqs[r].invoked :
        \A j \in DOMAIN routes[e[1]].paths[e[2]].handlers :
            reqs[r].invoked[k] # routes[e[1]].paths[e[2]].handlers[j]

\* the path matcher does not hold entry e
NotInTable(e) ==
    \A t \in DOMAIN table : ~(table[t].node = e[1] /\ table[t].idx = e[2])

C29_ChainShrinks ==
    /\ [](\A r \in DOMAIN reqs :
             /\ Len(reqs[r].invoked) <= Len(reqs[r].full)
             /\ \A i \in DOMAIN reqs[r].invoked :
                   reqs[r].invoked[i] = reqs[r].full[i]
             /\ reqs[r].pc = "chain" =>
                   Len(reqs[r].invoked) + reqs[r].handlers.len
                     = Len(reqs[r].full))
    /\ [][\A r \in DOMAIN reqs :
             (reqs[r].pc = "chain" /\ reqs'[r].pc = "chain")
             => /\ reqs'[r].handlers.len <= reqs[r].handlers.len
                /\ (next(r) /\ reqs[r].handlers.len > 0)
                     => reqs'[r].handlers.len = reqs[r].handlers.len - 1
                /\ Len(reqs'[r].invoked) - Len(reqs[r].invoked)
                     = reqs[r].handlers.len - reqs'[r].handlers.len]_vars
    /\ \A r \in 1..MaxReqs :
          (r \in DOMAIN reqs /\ reqs[r].pc = "chain")
             ~> (r \in DOMAIN reqs /\ reqs[r].pc = "done")

\* a request over a chain of param closures, middleware and handlers came
\* to its end after a handler had called next twice and the chain had run
\* out
C29_Witness ==
    \E r \in DOMAIN reqs :
        /\ reqs[r].pc = "done"
        /\ reqs[r].again
        /\ Len(reqs[r].full) >= 3
        /\ reqs[r].invoked = reqs[r].full
        /\ reqs[r].notFound > 0

\* Use(cnt handlers) on node n, then Get/Post/... on node m, comes to the
\* same tree and heap as the two calls the other way round
UseThenHandle(n, cnt, m, method, path, c) ==
    LET u == Use(heap, routes, n, cnt)
        h1 == NewHandlers("h", m, Len(u.rs[m].paths) + 1, c)
        h2 == NewHandlers("h", m, Len(routes[m].paths) + 1, c)
        v == Use(heap, [routes EXCEPT ![m] = handle(@, method, path, h2)],
                 n, cnt)
    IN  /\ [u.rs EXCEPT ![m] = handle(@, method, path, h1)] = v.rs
        /\ u.h = v.h

\* the same of Use on node n and NewRouter(path) on node m
UseThenNewRouter(n, cnt, m, path) ==
    LET u == Use(heap, routes, n, cnt)
        v == Use(heap, newChild(routes, path, m), n, cnt)
    IN  /\ newChild(u.rs, path, m) = v.rs
        /\ u.h = v.h

\* the handlers of sequence mw are those the Use calls on node a passed,
\* in the order of the calls
OwnInOrder(mw, a) ==
    /\ \A k \in DOMAIN mw : mw[k].k = "mw" /\ mw[k].n = a
    /\ \A k, l \in DOMAIN mw :
          k < l => \/ mw[k].i < mw[l].i
                   \/ mw[k].i = mw[l].i /\ mw[k].j < mw[l].j

\* C30: before the first request a Use call and a Get/Post/... or NewRouter
\* call give the same tree in either order, and every entry the walk hands
\* to the path matcher gets the middleware of its node's ancestors, root
\* first, and of its node, each node's in the order of its Use calls,
\* followed by the entry's handlers
C30_UseCommutes ==
    /\ Setup =>
          \A n \in Nodes, cnt \in lim.useArgs, m \in Nodes :
              /\ \A method \in lim.methods, path \in lim.epaths,
                       c \in lim.eh :
                    UseThenHandle(n, cnt, m, method, path, c)
              /\ \A path \in lim.rpaths : UseThenNewRouter(n, cnt, m, path)
    /\ \A e \in DOMAIN hist.walked :
          LET w == hist.walked[e]
              anc == Ancestors(routes, w.node)
          IN  /\ w.chain = PreMiddleware(anc)
                              \o routes[w.node].paths[w.idx].handlers
              /\ \A k \in DOMAIN anc : OwnInOrder(hist.pre[anc[k]].mw, anc[k])

\* a request was served by an entry of a router under the root; Use had
\* been called on the root and on the router after the router and the
\* entry were made, and the request ran all that middleware before the
\* entry's handler
C30_Witness ==
    \E r \in DOMAIN reqs :
        /\ reqs[r].pc = "done"
        /\ reqs[r].out = "served"
        /\ reqs[r].entry > 0
        /\ LET w == hist.walked[reqs[r].entry] IN
           /\ w.node # Root
           /\ <<w.node, w.idx>> \in hist.after.entries
           /\ w.node \in hist.after.routers
           /\ hist.pre[Root].mw # <<>>
           /\ hist.pre[w.node].mw # <<>>
           /\ reqs[r].invoked = w.chain
           /\ Len(w.chain) >= 3

====
